---- MODULE Spec2Model ----
(***************************************************************************)
(* Model of the response side of the KMS client: the conversions between   *)
(* the response types of package kms and their protobuf messages           *)
(* (MarshalPB / UnmarshalPB, kms/response.go) and readResponse, which      *)
(* reads an HTTP response body, decodes it with the binary or the JSON     *)
(* decoder and hands the message to UnmarshalPB.                           *)
(*                                                                         *)
(* Integers are scaled: TLC's integers are 32 bits wide, so the wire's     *)
(* uint32 is WireBits wide here, Go's int64/uint64 are 2*WireBits wide and *)
(* Go's int/uint are WireBits wide on a 32-bit build and 2*WireBits wide   *)
(* on a 64-bit build.  Every conversion keeps Go's rule for its widths.    *)
(***************************************************************************)
EXTENDS Integers, Sequences, FiniteSets, TLC

VARIABLES
    build,      \* the build's width of int and uint: "int32" or "int64"
    typ,        \* the response type the call is about
    x,          \* the value MarshalPB is called on
    m,          \* the wire message (pb.*)
    origin,     \* who wrote m: "none", "MarshalPB" or "peer"
    resp,       \* the http.Response handed to readResponse
    v0,         \* the target value before the call
    v,          \* the value UnmarshalPB / readResponse writes into
    err,        \* the error the last call returned
    nread,      \* body bytes consumed by readResponse
    decoder,    \* the decoder readResponse ran: "none", "binary", "json"
    pc,         \* "start", "wire", "response", "unmarshalled", "read",
                \* "panic"; "idle" when no single call is followed
    req,        \* a request message on its way through an encoding
    calls,      \* the calls that run concurrently, each with its own objects
    bufs,       \* the byte buffers the concurrent calls allocated
    pkg         \* the package-level variables of request.pb.go

vars == <<build, typ, x, m, origin, resp, v0, v, err, nread, decoder, pc,
          req, calls, bufs, pkg>>

----------------------------------------------------------------------------
(* Integer widths and Go's integer conversions                             *)

WireBits == 3

Builds == {"int32", "int64"}

IntBits(b) == IF b = "int32" THEN WireBits ELSE 2 * WireBits

\* An unsigned conversion keeps the low bits.
ToUnsigned(n, bits) == n % (2 ^ bits)

\* A signed conversion keeps the low bits and reads the top one as the sign.
ToSigned(n, bits) ==
    LET r == n % (2 ^ bits)
    IN  IF r >= 2 ^ (bits - 1) THEN r - 2 ^ bits ELSE r

MaxUint32 == 2 ^ WireBits - 1
MaxUint64 == 2 ^ (2 * WireBits) - 1
MaxInt64 == 2 ^ (2 * WireBits - 1) - 1
MinInt64 == - (2 ^ (2 * WireBits - 1))
MaxInt(b) == 2 ^ (IntBits(b) - 1) - 1
MinInt(b) == - (2 ^ (IntBits(b) - 1))
MaxUint(b) == 2 ^ IntBits(b) - 1

ToUint32(n) == ToUnsigned(n, WireBits)

\* Faulty variant of ToInt: the conversion goes through a type narrower
\* than the wire's integer.
ToInt_Narrow(b, n) == ToSigned(n, WireBits - 1)

ToInt(b, n) == ToSigned(n, IntBits(b))
ToUint(b, n) == ToUnsigned(n, IntBits(b))
ToInt64(n) == ToSigned(n, 2 * WireBits)

----------------------------------------------------------------------------
(* Go values: maps, pointers, errors                                       *)

\* A Go map is nil or holds a finite function.
NilMap == [isNil |-> TRUE, kv |-> << >>]
MakeMap(f) == [isNil |-> FALSE, kv |-> f]
Keys(mp) == DOMAIN mp.kv

NoError == [type |-> "nil", code |-> 0, msg |-> ""]
Panic == [type |-> "panic", code |-> 0, msg |-> "nil pointer dereference"]

\* The maps a Go loop  for k, e := range src { dst[conv(k)] = f(e) }  can
\* leave in dst, f(e) being any value of F(e): when conv sends two keys to
\* one, the iteration order, which Go leaves open, decides which entry stays.
ConvertMapSet(src, conv(_), F(_)) ==
    LET K == {conv(k) : k \in DOMAIN src}
        picks == {p \in [K -> DOMAIN src] : \A k \in K : conv(p[k]) = k}
        vals == UNION {F(src[i]) : i \in DOMAIN src}
    IN  {g \in [K -> vals] : \E p \in picks : \A k \in K : g[k] \in F(src[p[k]])}

\* Go's integer division truncates toward zero; the remainder has the
\* sign of the dividend.
GoQuot(a, b) == IF a >= 0 THEN a \div b ELSE - ((- a) \div b)
GoRem(a, b) == a - b * GoQuot(a, b)

----------------------------------------------------------------------------
(* Durations                                                               *)

\* A *durationpb.Duration: nil, or seconds and nanoseconds.
NilDuration == [isNil |-> TRUE, seconds |-> 0, nanos |-> 0]

\* pb.Duration(d): the duration d (nanoseconds) as a wire Duration.
Duration(d) ==
    [isNil |-> FALSE,
     seconds |-> GoQuot(d, 1000000000),
     nanos |-> GoRem(d, 1000000000)]

\* (*durationpb.Duration).AsDuration: its getters read a nil pointer as 0.
AsDuration(d) ==
    IF d.isNil THEN 0 ELSE d.seconds * 1000000000 + d.nanos

----------------------------------------------------------------------------
(* The response types and their wire messages                              *)

Types == {"EncryptResponse", "DecryptResponse", "GenerateKeyResponse",
          "NodeStatusResponse", "StatusResponse"}

\* The zero value of NodeStatusResponse.
ZeroNode ==
    [Version |-> "", APIVersion |-> "", Endpoint |-> "", Role |-> "",
     Commit |-> 0, Nodes |-> NilMap, ID |-> 0, LeaderID |-> 0,
     LastHeartbeat |-> 0, HeartbeatInterval |-> 0, ElectionTimeout |-> 0,
     UpTime |-> 0, OS |-> "", CPUArch |-> "", CPUs |-> 0, UsableCPUs |-> 0,
     HeapMemInUse |-> 0, StackMemInUse |-> 0]

\* new(pb.NodeStatusResponse).  The message's fields 19 and 20 (HSMs,
\* ConfiguredHSMs), which no conversion reads or writes, are left out.
ZeroWireNode ==
    [Version |-> "", APIVersion |-> "", Addr |-> "", UpTime |-> NilDuration,
     Role |-> "", Commit |-> 0, Nodes |-> NilMap, ID |-> 0, LeaderID |-> 0,
     LastHeartbeat |-> NilDuration, HeartbeatInterval |-> NilDuration,
     ElectionTimeout |-> NilDuration, OS |-> "", Arch |-> "", CPUs |-> 0,
     UsableCPUs |-> 0, HeapMemInUse |-> 0, StackMemInUse |-> 0]

\* A pointer to a node status (domain or wire): nil, or the value.
NilPtr == [isNil |-> TRUE]
Ptr(val) == [isNil |-> FALSE, val |-> val]

----------------------------------------------------------------------------
(* The declared fields of the messages                                     *)

Decl(msg, name, num, json, kind) ==
    [msg |-> msg, name |-> name, num |-> num, json |-> json, kind |-> kind]

\* The fields request.proto declares: message, field, number, json_name, type.
RequestProto ==
    <<Decl("ListRequest", "Prefix", 1, "prefix", "string"),
      Decl("ListRequest", "ContinueAt", 2, "continue_at", "string"),
      Decl("ListRequest", "Limit", 3, "limit", "uint32"),
      Decl("AddClusterNodeRequest", "Host", 1, "host", "string"),
      Decl("RemoveClusterNodeRequest", "Host", 1, "host", "string"),
      Decl("RemoveClusterNodeRequest", "DeleteClusterOnHost", 2,
           "delete_cluster_on_host", "bool"),
      Decl("EditClusterRequest", "Host", 1, "host", "string"),
      Decl("EditClusterRequest", "RemoveIDs", 2, "remove", "rep_uint32"),
      Decl("AddHSMRequest", "Name", 1, "name", "string"),
      Decl("AddHSMRequest", "Overwrite", 2, "overwrite", "bool"),
      Decl("RemoveHSMRequest", "Name", 1, "name", "string"),
      Decl("CreateEnclaveRequest", "Name", 1, "name", "string"),
      Decl("DeleteEnclaveRequest", "Name", 1, "name", "string"),
      Decl("EnclaveStatusRequest", "Name", 1, "name", "string"),
      Decl("LogRequest", "Level", 1, "level", "sint32"),
      Decl("LogRequest", "Message", 2, "message", "string"),
      Decl("LogRequest", "Since", 3, "since", "timestamp"),
      Decl("LogRequest", "TraceLevel", 4, "trace_level", "sint32"),
      Decl("CreateKeyRequest", "Name", 1, "name", "string"),
      Decl("CreateKeyRequest", "Type", 2, "type", "string"),
      Decl("CreateKeyRequest", "AddVersion", 3, "add_version", "bool"),
      Decl("ImportKeyRequest", "Name", 1, "name", "string"),
      Decl("ImportKeyRequest", "Type", 2, "type", "string"),
      Decl("ImportKeyRequest", "Key", 3, "key", "bytes"),
      Decl("DeleteKeyRequest", "Name", 1, "name", "string"),
      Decl("DeleteKeyRequest", "Version", 2, "version", "uint32"),
      Decl("DeleteKeyRequest", "AllVersions", 3, "all_versions", "bool"),
      Decl("KeyStatusRequest", "Name", 1, "name", "string"),
      Decl("KeyStatusRequest", "Version", 2, "version", "uint32"),
      Decl("EncryptRequest", "Name", 1, "name", "string"),
      Decl("EncryptRequest", "Version", 2, "version", "uint32"),
      Decl("EncryptRequest", "Plaintext", 3, "plaintext", "bytes"),
      Decl("EncryptRequest", "AssociatedData", 4, "associated_data", "bytes"),
      Decl("GenerateKeyRequest", "Name", 1, "name", "string"),
      Decl("GenerateKeyRequest", "Version", 2, "version", "uint32"),
      Decl("GenerateKeyRequest", "AssociatedData", 3,
           "associated_data", "bytes"),
      Decl("GenerateKeyRequest", "Length", 4, "length", "uint32"),
      Decl("MACRequest", "Name", 1, "name", "string"),
      Decl("MACRequest", "Version", 2, "version", "uint32"),
      Decl("MACRequest", "Message", 3, "message", "bytes"),
      Decl("DecryptRequest", "Name", 1, "name", "string"),
      Decl("DecryptRequest", "Version", 2, "version", "uint32"),
      Decl("DecryptRequest", "Ciphertext", 3, "ciphertext", "bytes"),
      Decl("DecryptRequest", "AssociatedData", 4, "associated_data", "bytes"),
      Decl("CreatePolicyRequest", "Name", 1, "name", "string"),
      Decl("CreatePolicyRequest", "Allow", 2, "allow", "map_ruleset"),
      Decl("CreatePolicyRequest", "Deny", 3, "deny", "map_ruleset"),
      Decl("PolicyRequest", "Name", 1, "name", "string"),
      Decl("DeletePolicyRequest", "Name", 1, "name", "string"),
      Decl("AssignPolicyRequest", "Identity", 1, "identity", "string"),
      Decl("AssignPolicyRequest", "Policy", 2, "policy", "string"),
      Decl("CreateIdentityRequest", "Identity", 1, "identity", "string"),
      Decl("CreateIdentityRequest", "Privilege", 2, "privilege", "string"),
      Decl("CreateIdentityRequest", "IsServiceAccount", 3,
           "service_account", "bool"),
      Decl("CreateIdentityRequest", "Tags", 4, "tags", "map_string_string"),
      Decl("IdentityRequest", "Identity", 1, "identity", "string"),
      Decl("DeleteIdentityRequest", "Identity", 1, "identity", "string")>>

\* The fields of the generated request types, from their protobuf struct tags:
\* Go type, field, number, json= label, type (opt_: a pointer, a oneof member).
RequestPbGo ==
    <<Decl("EditClusterRequest", "RemoveIDs", 1, "remove", "rep_uint32"),
      Decl("CreateKeyRequest", "Type", 1, "type", "opt_string"),
      Decl("AddKeyVersionRequest", "Type", 1, "type", "opt_string"),
      Decl("RemoveKeyVersionRequest", "Version", 1, "version", "uint32"),
      Decl("EncryptRequest", "Version", 1, "version", "uint32"),
      Decl("EncryptRequest", "Plaintext", 2, "plaintext", "bytes"),
      Decl("EncryptRequest", "AssociatedData", 3, "associated_data", "bytes"),
      Decl("GenerateKeyRequest", "Version", 1, "version", "uint32"),
      Decl("GenerateKeyRequest", "AssociatedData", 2,
           "associated_data", "bytes"),
      Decl("GenerateKeyRequest", "Length", 3, "length", "opt_uint32"),
      Decl("DecryptRequest", "Version", 1, "version", "uint32"),
      Decl("DecryptRequest", "Ciphertext", 2, "ciphertext", "bytes"),
      Decl("DecryptRequest", "AssociatedData", 3,
           "associated_data", "bytes")>>

\* The fields response.proto declares.
ResponseProto ==
    <<Decl("ErrResponse", "Message", 1, "message", "string"),
      Decl("VersionResponse", "Version", 1, "version", "string"),
      Decl("VersionResponse", "Commit", 2, "commit", "string"),
      Decl("VersionResponse", "APIVersion", 3, "api_version", "string"),
      Decl("VersionResponse", "Host", 4, "host", "string"),
      Decl("VersionResponse", "FIPS140", 5, "fips140", "bool"),
      Decl("ServerStatusResponse", "Version", 1, "version", "string"),
      Decl("ServerStatusResponse", "APIVersion", 2, "api_version", "string"),
      Decl("ServerStatusResponse", "Host", 3, "host", "string"),
      Decl("ServerStatusResponse", "UpTime", 4, "uptime", "duration"),
      Decl("ServerStatusResponse", "Role", 5, "role", "string"),
      Decl("ServerStatusResponse", "Commit", 6, "commit", "uint64"),
      Decl("ServerStatusResponse", "Nodes", 7, "nodes", "map_string"),
      Decl("ServerStatusResponse", "ID", 8, "node_id", "uint32"),
      Decl("ServerStatusResponse", "LeaderID", 9, "leader_id", "sint64"),
      Decl("ServerStatusResponse", "LastHeartbeat", 10,
           "last_heartbeat", "duration"),
      Decl("ServerStatusResponse", "HeartbeatInterval", 11,
           "heartbeat_interval", "duration"),
      Decl("ServerStatusResponse", "ElectionTimeout", 12,
           "election_timeout", "duration"),
      Decl("ServerStatusResponse", "OS", 13, "sys_os", "string"),
      Decl("ServerStatusResponse", "Arch", 14, "sys_cpu_arch", "string"),
      Decl("ServerStatusResponse", "CPUs", 15, "sys_cpu_num", "uint32"),
      Decl("ServerStatusResponse", "UsableCPUs", 16,
           "sys_cpu_used", "uint32"),
      Decl("ServerStatusResponse", "HeapMemInUse", 17,
           "sys_mem_heap_used", "uint64"),
      Decl("ServerStatusResponse", "StackMemInUse", 18,
           "sys_mem_stack_used", "uint64"),
      Decl("ServerStatusResponse", "HSMs", 19, "hsm", "rep_string"),
      Decl("ServerStatusResponse", "ConfiguredHSMs", 20,
           "hsm_active", "rep_string"),
      Decl("ProfileStatusResponse", "Started", 1, "started", "timestamp"),
      Decl("ProfileStatusResponse", "CPU", 2, "cpu", "bool"),
      Decl("ProfileStatusResponse", "Heap", 3, "heap", "bool"),
      Decl("ProfileStatusResponse", "Goroutine", 4, "goroutine", "bool"),
      Decl("ProfileStatusResponse", "Thread", 5, "thread", "bool"),
      Decl("ProfileStatusResponse", "BlockRate", 6, "block_rate", "uint32"),
      Decl("ProfileStatusResponse", "MutexFraction", 7,
           "mutex_frac", "uint32"),
      Decl("ClusterStatusResponse", "NodesUp", 1, "nodes_up", "map_node"),
      Decl("ClusterStatusResponse", "NodesDown", 2,
           "nodes_down", "map_string"),
      Decl("EnclaveStatusResponse", "Name", 1, "name", "string"),
      Decl("EnclaveStatusResponse", "CreatedAt", 2,
           "created_at", "timestamp"),
      Decl("EnclaveStatusResponse", "CreatedBy", 3, "created_by", "string"),
      Decl("ListEnclavesResponse", "Enclaves", 1, "enclaves", "rep_message"),
      Decl("ListEnclavesResponse", "ContinueAt", 2, "continue_at", "string"),
      Decl("KeyStatusResponse", "Name", 1, "name", "string"),
      Decl("KeyStatusResponse", "Version", 2, "version", "uint32"),
      Decl("KeyStatusResponse", "Type", 3, "type", "string"),
      Decl("KeyStatusResponse", "CreatedAt", 4, "created_at", "timestamp"),
      Decl("KeyStatusResponse", "CreatedBy", 5, "created_by", "string"),
      Decl("ListKeysResponse", "Keys", 1, "keys", "rep_message"),
      Decl("ListKeysResponse", "ContinueAt", 2, "continue_at", "string"),
      Decl("EncryptResponse", "Version", 1, "version", "uint32"),
      Decl("EncryptResponse", "Ciphertext", 2, "ciphertext", "bytes"),
      Decl("DecryptResponse", "Plaintext", 1, "plaintext", "bytes"),
      Decl("GenerateKeyResponse", "Version", 1, "version", "uint32"),
      Decl("GenerateKeyResponse", "Plaintext", 2, "plaintext", "bytes"),
      Decl("GenerateKeyResponse", "Ciphertext", 3, "ciphertext", "bytes"),
      Decl("MACResponse", "Version", 1, "version", "uint32"),
      Decl("MACResponse", "MAC", 2, "mac", "bytes"),
      Decl("PolicyStatusResponse", "Name", 1, "name", "string"),
      Decl("PolicyStatusResponse", "CreatedAt", 4, "created_at", "timestamp"),
      Decl("PolicyStatusResponse", "CreatedBy", 5, "created_by", "string"),
      Decl("PolicyResponse", "Name", 1, "name", "string"),
      Decl("PolicyResponse", "Allow", 2, "allow", "map_ruleset"),
      Decl("PolicyResponse", "Deny", 3, "deny", "map_ruleset"),
      Decl("PolicyResponse", "CreatedAt", 4, "created_at", "timestamp"),
      Decl("PolicyResponse", "CreatedBy", 5, "created_by", "string"),
      Decl("ListPoliciesResponse", "Policies", 1, "policies", "rep_message"),
      Decl("ListPoliciesResponse", "ContinueAt", 2, "continue_at", "string"),
      Decl("IdentityResponse", "Identity", 1, "identity", "string"),
      Decl("IdentityResponse", "Privilege", 2, "privilege", "uint32"),
      Decl("IdentityResponse", "Policy", 3, "policy", "string"),
      Decl("IdentityResponse", "CreatedAt", 4, "created_at", "timestamp"),
      Decl("IdentityResponse", "CreatedBy", 5, "created_by", "string"),
      Decl("IdentityResponse", "IsServiceAccount", 6,
           "is_service_account", "bool"),
      Decl("IdentityResponse", "ServiceAccounts", 7,
           "service_accounts", "rep_string"),
      Decl("IdentityResponse", "Tags", 8, "tags", "map_string_string"),
      Decl("ListIdentitiesResponse", "Identities", 1,
           "identities", "rep_message"),
      Decl("ListIdentitiesResponse", "ContinueAt", 2,
           "continue_at", "string")>>

\* The characters of each label; a label that no schema declares counts as
\* one unknown character.
Spell(label) ==
    CASE label = "add_version" ->
            <<"a", "d", "d", "_", "v", "e", "r", "s", "i", "o", "n">>
      [] label = "all_versions" ->
            <<"a", "l", "l", "_", "v", "e", "r", "s", "i", "o", "n", "s">>
      [] label = "allow" -> <<"a", "l", "l", "o", "w">>
      [] label = "api_version" ->
            <<"a", "p", "i", "_", "v", "e", "r", "s", "i", "o", "n">>
      [] label = "associated_data" ->
            <<"a", "s", "s", "o", "c", "i", "a", "t", "e", "d", "_", "d",
              "a", "t", "a">>
      [] label = "block_rate" ->
            <<"b", "l", "o", "c", "k", "_", "r", "a", "t", "e">>
      [] label = "ciphertext" ->
            <<"c", "i", "p", "h", "e", "r", "t", "e", "x", "t">>
      [] label = "commit" -> <<"c", "o", "m", "m", "i", "t">>
      [] label = "continue_at" ->
            <<"c", "o", "n", "t", "i", "n", "u", "e", "_", "a", "t">>
      [] label = "cpu" -> <<"c", "p", "u">>
      [] label = "created_at" ->
            <<"c", "r", "e", "a", "t", "e", "d", "_", "a", "t">>
      [] label = "created_by" ->
            <<"c", "r", "e", "a", "t", "e", "d", "_", "b", "y">>
      [] label = "delete_cluster_on_host" ->
            <<"d", "e", "l", "e", "t", "e", "_", "c", "l", "u", "s", "t",
              "e", "r", "_", "o", "n", "_", "h", "o", "s", "t">>
      [] label = "deny" -> <<"d", "e", "n", "y">>
      [] label = "election_timeout" ->
            <<"e", "l", "e", "c", "t", "i", "o", "n", "_", "t", "i", "m",
              "e", "o", "u", "t">>
      [] label = "enclaves" -> <<"e", "n", "c", "l", "a", "v", "e", "s">>
      [] label = "fips140" -> <<"f", "i", "p", "s", "1", "4", "0">>
      [] label = "goroutine" ->
            <<"g", "o", "r", "o", "u", "t", "i", "n", "e">>
      [] label = "heap" -> <<"h", "e", "a", "p">>
      [] label = "heartbeat_interval" ->
            <<"h", "e", "a", "r", "t", "b", "e", "a", "t", "_", "i", "n",
              "t", "e", "r", "v", "a", "l">>
      [] label = "host" -> <<"h", "o", "s", "t">>
      [] label = "hsm" -> <<"h", "s", "m">>
      [] label = "hsm_active" ->
            <<"h", "s", "m", "_", "a", "c", "t", "i", "v", "e">>
      [] label = "identities" ->
            <<"i", "d", "e", "n", "t", "i", "t", "i", "e", "s">>
      [] label = "identity" -> <<"i", "d", "e", "n", "t", "i", "t", "y">>
      [] label = "is_service_account" ->
            <<"i", "s", "_", "s", "e", "r", "v", "i", "c", "e", "_", "a",
              "c", "c", "o", "u", "n", "t">>
      [] label = "key" -> <<"k", "e", "y">>
      [] label = "keys" -> <<"k", "e", "y", "s">>
      [] label = "last_heartbeat" ->
            <<"l", "a", "s", "t", "_", "h", "e", "a", "r", "t", "b", "e",
              "a", "t">>
      [] label = "leader_id" ->
            <<"l", "e", "a", "d", "e", "r", "_", "i", "d">>
      [] label = "length" -> <<"l", "e", "n", "g", "t", "h">>
      [] label = "level" -> <<"l", "e", "v", "e", "l">>
      [] label = "limit" -> <<"l", "i", "m", "i", "t">>
      [] label = "mac" -> <<"m", "a", "c">>
      [] label = "message" -> <<"m", "e", "s", "s", "a", "g", "e">>
      [] label = "mutex_frac" ->
            <<"m", "u", "t", "e", "x", "_", "f", "r", "a", "c">>
      [] label = "name" -> <<"n", "a", "m", "e">>
      [] label = "node_id" -> <<"n", "o", "d", "e", "_", "i", "d">>
      [] label = "nodes" -> <<"n", "o", "d", "e", "s">>
      [] label = "nodes_down" ->
            <<"n", "o", "d", "e", "s", "_", "d", "o", "w", "n">>
      [] label = "nodes_up" -> <<"n", "o", "d", "e", "s", "_", "u", "p">>
      [] label = "overwrite" ->
            <<"o", "v", "e", "r", "w", "r", "i", "t", "e">>
      [] label = "plaintext" ->
            <<"p", "l", "a", "i", "n", "t", "e", "x", "t">>
      [] label = "policies" -> <<"p", "o", "l", "i", "c", "i", "e", "s">>
      [] label = "policy" -> <<"p", "o", "l", "i", "c", "y">>
      [] label = "prefix" -> <<"p", "r", "e", "f", "i", "x">>
      [] label = "privilege" ->
            <<"p", "r", "i", "v", "i", "l", "e", "g", "e">>
      [] label = "remove" -> <<"r", "e", "m", "o", "v", "e">>
      [] label = "role" -> <<"r", "o", "l", "e">>
      [] label = "service_account" ->
            <<"s", "e", "r", "v", "i", "c", "e", "_", "a", "c", "c", "o",
              "u", "n", "t">>
      [] label = "service_accounts" ->
            <<"s", "e", "r", "v", "i", "c", "e", "_", "a", "c", "c", "o",
              "u", "n", "t", "s">>
      [] label = "since" -> <<"s", "i", "n", "c", "e">>
      [] label = "started" -> <<"s", "t", "a", "r", "t", "e", "d">>
      [] label = "sys_cpu_arch" ->
            <<"s", "y", "s", "_", "c", "p", "u", "_", "a", "r", "c", "h">>
      [] label = "sys_cpu_num" ->
            <<"s", "y", "s", "_", "c", "p", "u", "_", "n", "u", "m">>
      [] label = "sys_cpu_used" ->
            <<"s", "y", "s", "_", "c", "p", "u", "_", "u", "s", "e", "d">>
      [] label = "sys_mem_heap_used" ->
            <<"s", "y", "s", "_", "m", "e", "m", "_", "h", "e", "a", "p",
              "_", "u", "s", "e", "d">>
      [] label = "sys_mem_stack_used" ->
            <<"s", "y", "s", "_", "m", "e", "m", "_", "s", "t", "a", "c",
              "k", "_", "u", "s", "e", "d">>
      [] label = "sys_os" -> <<"s", "y", "s", "_", "o", "s">>
      [] label = "tags" -> <<"t", "a", "g", "s">>
      [] label = "thread" -> <<"t", "h", "r", "e", "a", "d">>
      [] label = "trace_level" ->
            <<"t", "r", "a", "c", "e", "_", "l", "e", "v", "e", "l">>
      [] label = "type" -> <<"t", "y", "p", "e">>
      [] label = "uptime" -> <<"u", "p", "t", "i", "m", "e">>
      [] label = "version" -> <<"v", "e", "r", "s", "i", "o", "n">>
      [] OTHER -> <<label>>

\* Faulty variant of JSONName: the label is taken from the name of the
\* field in memory.
JSONName_FieldName(d) == d.name

\* The label protojson writes and reads a field under: the json_name of
\* the schema, the json= entry of the generated type's protobuf tag.  (The
\* json:"..." tag next to it names the Go field and is read by
\* encoding/json alone, which no code here calls.)
JSONName(d) == d.json

\* The fields of one message of a table, in the shape Schema gives them.
Fields(table, msg) ==
    LET rows == SelectSeq(table, LAMBDA d : d.msg = msg)
    IN  [i \in DOMAIN rows |->
           [name |-> rows[i].name, num |-> rows[i].num,
            json |-> JSONName(rows[i]), kind |-> rows[i].kind]]

\* The generated request types (request.pb.go), by their Go names.
GoRequestTypes ==
    {"EditClusterRequest", "CreateKeyRequest", "AddKeyVersionRequest",
     "RemoveKeyVersionRequest", "EncryptRequest", "GenerateKeyRequest",
     "DecryptRequest"}

\* The same messages as request.proto declares them, by their full names
\* in the package minio.kms.
FullName(msg) == "minio.kms." \o msg
ProtoRequestNames ==
    {"EditClusterRequest", "CreateKeyRequest", "EncryptRequest",
     "GenerateKeyRequest", "DecryptRequest"}
ProtoRequestTypes == {FullName(msg) : msg \in ProtoRequestNames}
ShortName(t) == CHOOSE msg \in ProtoRequestNames : FullName(msg) = t

RequestTypes == GoRequestTypes \cup ProtoRequestTypes

RequestSchema(t) ==
    IF t \in GoRequestTypes THEN Fields(RequestPbGo, t)
    ELSE Fields(RequestProto, ShortName(t))

\* The zero value of a field: a field with explicit presence (opt_) is a
\* nil pointer.
ZeroField(kind) ==
    CASE kind = "uint32" -> 0
      [] kind = "string" -> ""
      [] kind = "bool" -> FALSE
      [] kind \in {"bytes", "rep_uint32"} -> << >>
      [] kind \in {"opt_uint32", "opt_string"} -> NilPtr

\* new(pb.M) for a request message M.
ZeroRequest(t) ==
    LET sch == RequestSchema(t)
    IN  [n \in {sch[i].name : i \in DOMAIN sch} |->
           ZeroField((CHOOSE f \in {sch[i] : i \in DOMAIN sch} : f.name = n).kind)]

\* The message of response.proto behind each wire type response.go names.
ProtoMessage(t) ==
    CASE t = "NodeStatusResponse" -> "ServerStatusResponse"
      [] t = "StatusResponse" -> "ClusterStatusResponse"
      [] OTHER -> t

----------------------------------------------------------------------------
(* Zero values                                                             *)

ZeroValue(t) ==
    CASE t = "EncryptResponse" -> [Version |-> 0, Ciphertext |-> << >>]
      [] t = "DecryptResponse" -> [Plaintext |-> << >>]
      [] t = "GenerateKeyResponse" ->
            [Version |-> 0, Plaintext |-> << >>, Ciphertext |-> << >>]
      [] t = "NodeStatusResponse" -> ZeroNode
      [] t = "StatusResponse" -> [NodesUp |-> NilMap, NodesDown |-> NilMap]

ZeroWire(t) ==
    CASE t = "EncryptResponse" -> [Version |-> 0, Ciphertext |-> << >>]
      [] t = "DecryptResponse" -> [Plaintext |-> << >>]
      [] t = "GenerateKeyResponse" ->
            [Version |-> 0, Plaintext |-> << >>, Ciphertext |-> << >>]
      [] t = "NodeStatusResponse" -> ZeroWireNode
      [] t = "StatusResponse" -> [NodesUp |-> NilMap, NodesDown |-> NilMap]
      [] t \in RequestTypes -> ZeroRequest(t)

----------------------------------------------------------------------------
(* MarshalPB and UnmarshalPB.  Each operator gives the set of outcomes     *)
(* [err, val] of one call: val is the value the call wrote into.           *)

NodeStatusResponse_MarshalPB(b, s, w) ==
    {[err |-> NoError,
      val |-> [w EXCEPT
                 !.Version = s.Version,
                 !.APIVersion = s.APIVersion,
                 !.Addr = s.Endpoint,
                 !.Role = s.Role,
                 !.Commit = s.Commit,
                 !.Nodes = MakeMap(nodes),
                 !.ID = ToUint32(s.ID),
                 !.LeaderID = ToInt64(s.LeaderID),
                 !.LastHeartbeat = Duration(s.LastHeartbeat),
                 !.HeartbeatInterval = Duration(s.HeartbeatInterval),
                 !.ElectionTimeout = Duration(s.ElectionTimeout),
                 !.OS = s.OS,
                 !.Arch = s.CPUArch,
                 !.CPUs = ToUint32(s.CPUs),
                 !.UsableCPUs = ToUint32(s.UsableCPUs),
                 !.HeapMemInUse = s.HeapMemInUse,
                 !.StackMemInUse = s.StackMemInUse]] :
        nodes \in ConvertMapSet(s.Nodes.kv, ToUint32, LAMBDA e : {e})}

\* Faulty variant of NodeStatusResponse.UnmarshalPB: only the Version is
\* copied, the Role and the rest of the message are left out.
NodeStatusResponse_UnmarshalPB_VersionOnly(b, s, w) ==
    {[err |-> NoError, val |-> [s EXCEPT !.Version = w.Version]]}

NodeStatusResponse_UnmarshalPB(b, s, w) ==
    {[err |-> NoError,
      val |-> [s EXCEPT
                 !.Version = w.Version,
                 !.APIVersion = w.APIVersion,
                 !.Endpoint = w.Addr,
                 !.Role = w.Role,
                 !.Commit = w.Commit,
                 !.Nodes = MakeMap(nodes),
                 !.ID = ToInt(b, w.ID),
                 !.LeaderID = ToInt(b, w.LeaderID),
                 !.LastHeartbeat = AsDuration(w.LastHeartbeat),
                 !.HeartbeatInterval = AsDuration(w.HeartbeatInterval),
                 !.ElectionTimeout = AsDuration(w.ElectionTimeout),
                 !.OS = w.OS,
                 !.CPUArch = w.Arch,
                 !.CPUs = ToUint(b, w.CPUs),
                 !.UsableCPUs = ToUint(b, w.UsableCPUs),
                 !.HeapMemInUse = w.HeapMemInUse,
                 !.StackMemInUse = w.StackMemInUse]] :
        nodes \in ConvertMapSet(w.Nodes.kv, LAMBDA k : ToInt(b, k),
                                LAMBDA e : {e})}

Restrict(f, S) == [k \in S |-> f[k]]

\* (*NodeStatusResponse).MarshalPB called through a pointer of a map.
MarshalEntry(b, e) ==
    {Ptr(r.val) : r \in NodeStatusResponse_MarshalPB(b, e.val, ZeroWireNode)}

UnmarshalEntry(b, e) ==
    {Ptr(r.val) : r \in NodeStatusResponse_UnmarshalPB(b, ZeroNode, e.val)}

\* A nil entry of NodesUp makes the call of the entry's method read through
\* a nil pointer: the loop stops there, with the entries it visited before
\* already stored and NodesDown not yet written.
StatusResponse_MarshalPB(b, s, w) ==
    LET up == s.NodesUp.kv
        nils == {k \in DOMAIN up : up[k].isNil}
    IN  IF nils # {}
        THEN {[err |-> Panic, val |-> [w EXCEPT !.NodesUp = MakeMap(g)]] :
                g \in UNION {ConvertMapSet(Restrict(up, S), ToUint32,
                                           LAMBDA e : MarshalEntry(b, e)) :
                             S \in SUBSET (DOMAIN up \ nils)}}
        ELSE {[err |-> NoError,
               val |-> [w EXCEPT !.NodesUp = MakeMap(g),
                                 !.NodesDown = MakeMap(d)]] :
                g \in ConvertMapSet(up, ToUint32,
                                    LAMBDA e : MarshalEntry(b, e)),
                d \in ConvertMapSet(s.NodesDown.kv, ToUint32,
                                    LAMBDA e : {e})}

StatusResponse_UnmarshalPB(b, s, w) ==
    LET up == w.NodesUp.kv
        nils == {k \in DOMAIN up : up[k].isNil}
    IN  IF nils # {}
        THEN {[err |-> Panic, val |-> [s EXCEPT !.NodesUp = MakeMap(g)]] :
                g \in UNION {ConvertMapSet(Restrict(up, S),
                                           LAMBDA k : ToInt(b, k),
                                           LAMBDA e : UnmarshalEntry(b, e)) :
                             S \in SUBSET (DOMAIN up \ nils)}}
        ELSE {[err |-> NoError,
               val |-> [s EXCEPT !.NodesUp = MakeMap(g),
                                 !.NodesDown = MakeMap(d)]] :
                g \in ConvertMapSet(up, LAMBDA k : ToInt(b, k),
                                    LAMBDA e : UnmarshalEntry(b, e)),
                d \in ConvertMapSet(w.NodesDown.kv, LAMBDA k : ToInt(b, k),
                                    LAMBDA e : {e})}

EncryptResponse_MarshalPB(b, r, w) ==
    {[err |-> NoError,
      val |-> [w EXCEPT !.Version = ToUint32(r.Version),
                        !.Ciphertext = r.Ciphertext]]}

EncryptResponse_UnmarshalPB(b, r, w) ==
    {[err |-> NoError,
      val |-> [r EXCEPT !.Version = ToInt(b, w.Version),
                        !.Ciphertext = w.Ciphertext]]}

DecryptResponse_MarshalPB(b, r, w) ==
    {[err |-> NoError, val |-> [w EXCEPT !.Plaintext = r.Plaintext]]}

\* Faulty variant of DecryptResponse.UnmarshalPB: the plaintext is appended
\* to what the receiver holds.
DecryptResponse_UnmarshalPB_Append(b, r, w) ==
    {[err |-> NoError, val |-> [r EXCEPT !.Plaintext = @ \o w.Plaintext]]}

DecryptResponse_UnmarshalPB(b, r, w) ==
    {[err |-> NoError, val |-> [r EXCEPT !.Plaintext = w.Plaintext]]}

GenerateKeyResponse_MarshalPB(b, r, w) ==
    {[err |-> NoError,
      val |-> [w EXCEPT !.Version = ToUint32(r.Version),
                        !.Plaintext = r.Plaintext,
                        !.Ciphertext = r.Ciphertext]]}

GenerateKeyResponse_UnmarshalPB(b, r, w) ==
    {[err |-> NoError,
      val |-> [r EXCEPT !.Version = ToInt(b, w.Version),
                        !.Plaintext = w.Plaintext,
                        !.Ciphertext = w.Ciphertext]]}

\* s.MarshalPB(w) and s.UnmarshalPB(w) for a value s of type t.
MarshalPB(b, t, s, w) ==
    CASE t = "EncryptResponse" -> EncryptResponse_MarshalPB(b, s, w)
      [] t = "DecryptResponse" -> DecryptResponse_MarshalPB(b, s, w)
      [] t = "GenerateKeyResponse" -> GenerateKeyResponse_MarshalPB(b, s, w)
      [] t = "NodeStatusResponse" -> NodeStatusResponse_MarshalPB(b, s, w)
      [] t = "StatusResponse" -> StatusResponse_MarshalPB(b, s, w)

UnmarshalPB(b, t, s, w) ==
    CASE t = "EncryptResponse" -> EncryptResponse_UnmarshalPB(b, s, w)
      [] t = "DecryptResponse" -> DecryptResponse_UnmarshalPB(b, s, w)
      [] t = "GenerateKeyResponse" -> GenerateKeyResponse_UnmarshalPB(b, s, w)
      [] t = "NodeStatusResponse" -> NodeStatusResponse_UnmarshalPB(b, s, w)
      [] t = "StatusResponse" -> StatusResponse_UnmarshalPB(b, s, w)

----------------------------------------------------------------------------
(* The two encodings of a wire message.  A body is a sequence of tokens,   *)
(* one token standing for the bytes of one field (binary) or of one        *)
(* member or brace (JSON); lengths count tokens.                           *)

Field(name, num, json, kind) ==
    [name |-> name, num |-> num, json |-> json, kind |-> kind]

\* The fields of each message: Go name, field number, JSON label, type.
Schema(t) ==
    CASE t = "EncryptResponse" ->
            <<Field("Version", 1, "version", "uint32"),
              Field("Ciphertext", 2, "ciphertext", "bytes")>>
      [] t = "DecryptResponse" ->
            <<Field("Plaintext", 1, "plaintext", "bytes")>>
      [] t = "GenerateKeyResponse" ->
            <<Field("Version", 1, "version", "uint32"),
              Field("Plaintext", 2, "plaintext", "bytes"),
              Field("Ciphertext", 3, "ciphertext", "bytes")>>
      [] t = "NodeStatusResponse" ->
            <<Field("Version", 1, "version", "string"),
              Field("APIVersion", 2, "api_version", "string"),
              Field("Addr", 3, "host", "string"),
              Field("UpTime", 4, "uptime", "duration"),
              Field("Role", 5, "role", "string"),
              Field("Commit", 6, "commit", "uint64"),
              Field("Nodes", 7, "nodes", "map_string"),
              Field("ID", 8, "node_id", "uint32"),
              Field("LeaderID", 9, "leader_id", "sint64"),
              Field("LastHeartbeat", 10, "last_heartbeat", "duration"),
              Field("HeartbeatInterval", 11, "heartbeat_interval", "duration"),
              Field("ElectionTimeout", 12, "election_timeout", "duration"),
              Field("OS", 13, "sys_os", "string"),
              Field("Arch", 14, "sys_cpu_arch", "string"),
              Field("CPUs", 15, "sys_cpu_num", "uint32"),
              Field("UsableCPUs", 16, "sys_cpu_used", "uint32"),
              Field("HeapMemInUse", 17, "sys_mem_heap_used", "uint64"),
              Field("StackMemInUse", 18, "sys_mem_stack_used", "uint64")>>
      [] t = "StatusResponse" ->
            <<Field("NodesUp", 1, "nodes_up", "map_node"),
              Field("NodesDown", 2, "nodes_down", "map_string")>>
      [] t \in RequestTypes -> RequestSchema(t)

\* The wire type of a field: 0 is a varint, 2 is length-delimited.
WireType(kind) ==
    IF kind \in {"uint32", "uint64", "sint64", "bool", "opt_uint32"} THEN 0 ELSE 2

\* sint64 fields are written in the zigzag form.
ZigZag(n) == IF n >= 0 THEN 2 * n ELSE - 2 * n - 1
UnZigZag(z) == IF z % 2 = 0 THEN z \div 2 ELSE - ((z + 1) \div 2)

RECURSIVE SortedSeq(_)
SortedSeq(S) ==
    IF S = {} THEN << >>
    ELSE LET lo == CHOOSE a \in S : \A c \in S : a <= c
         IN  <<lo>> \o SortedSeq(S \ {lo})

RECURSIVE Concat(_)
Concat(ss) == IF ss = << >> THEN << >> ELSE Head(ss) \o Concat(Tail(ss))

\* Whether a field holds its type's zero value, which neither encoding
\* writes.
IsDefault(kind, val) ==
    CASE kind \in {"uint32", "uint64", "sint64"} -> val = 0
      [] kind = "string" -> val = ""
      [] kind \in {"bytes", "rep_uint32"} -> Len(val) = 0
      [] kind = "bool" -> val = FALSE
      [] kind \in {"duration", "opt_uint32", "opt_string"} -> val.isNil
      [] kind \in {"map_string", "map_node"} -> DOMAIN val.kv = {}

\* What the bytes of a field's payload spell: the token of a field holds
\* the payload as the value the writer had, and as what it was written.
Payload(kind) ==
    CASE kind \in {"uint32", "uint64", "sint64", "bool", "opt_uint32"} ->
            "varint"
      [] kind \in {"string", "opt_string"} -> "text"
      [] kind = "bytes" -> "bytes"
      [] kind = "rep_uint32" -> "packed"
      [] OTHER -> "message"

BinToken(f, val) ==
    [k |-> "fld", num |-> f.num, wt |-> WireType(f.kind),
     as |-> Payload(f.kind), val |-> val]

\* The octets of the UTF-8 form of a string a request holds.
Octets(str) ==
    CASE str = "" -> << >>
      [] str = "AES256" -> <<65, 69, 83, 50, 53, 54>>
      [] str = "^A" -> <<1>>
      [] str = "^A^B" -> <<1, 2>>

\* The string whose UTF-8 form the octets are; the control characters
\* U+0001 and U+0002 are written ^A and ^B.
Text(octets) ==
    CASE octets = << >> -> ""
      [] octets = <<65, 69, 83, 50, 53, 54>> -> "AES256"
      [] octets = <<1>> -> "^A"
      [] octets = <<1, 2>> -> "^A^B"

\* The value a reader takes from the payload of a length-delimited field
\* it declares with another type than the writer: the same octets, read as
\* the reader's type.  A packed uint32 below 128 is one octet.
Recast(tok, kind) ==
    LET to == Payload(kind)
    IN  CASE tok.as = to -> tok.val
          [] tok.as \in {"packed", "bytes"} /\ to = "text" -> Text(tok.val)
          [] tok.as = "text" /\ to \in {"packed", "bytes"} -> Octets(tok.val)
          [] OTHER -> tok.val

\* proto.Marshal: the fields in the order of their numbers, a map as one
\* token per entry.
RECURSIVE EncodeBinary(_, _)
EncodeBinary(t, msg) ==
    LET sch == Schema(t)
        tokens(f) ==
            LET val == msg[f.name]
            IN  IF IsDefault(f.kind, val) THEN << >>
                ELSE CASE f.kind \in {"uint32", "uint64", "string", "bytes",
                                      "bool", "rep_uint32"} ->
                            <<BinToken(f, val)>>
                       [] f.kind \in {"opt_uint32", "opt_string"} ->
                            <<BinToken(f, val.val)>>
                       [] f.kind = "sint64" -> <<BinToken(f, ZigZag(val))>>
                       [] f.kind = "duration" ->
                            <<BinToken(f, [seconds |-> val.seconds,
                                           nanos |-> val.nanos])>>
                       [] f.kind = "map_string" ->
                            LET ks == SortedSeq(DOMAIN val.kv)
                            IN  [i \in 1..Len(ks) |->
                                   BinToken(f, [key |-> ks[i],
                                                value |-> val.kv[ks[i]]])]
                       [] f.kind = "map_node" ->
                            LET ks == SortedSeq(DOMAIN val.kv)
                            IN  [i \in 1..Len(ks) |->
                                   BinToken(f, [key |-> ks[i],
                                                value |-> EncodeBinary(
                                                    "NodeStatusResponse",
                                                    val.kv[ks[i]].val)])]
    IN  Concat([i \in 1..Len(sch) |-> tokens(sch[i])])

JNum(n) == [t |-> "number", val |-> n]
JStr(a) == [t |-> "string", val |-> a]
JBase64(bs) == [t |-> "base64", val |-> bs]
JObject(members) == [t |-> "object", val |-> members]
JBool(b) == [t |-> "bool", val |-> b]
JArray(elems) == [t |-> "array", val |-> elems]
JPair(key, val) == [k |-> "pair", key |-> key, val |-> val]

\* The members of the JSON object of a message: 32-bit integers are JSON
\* numbers, 64-bit integers decimal strings, bytes base64 strings, a
\* duration a string of seconds, a map an object keyed by decimal strings.
RECURSIVE EncodeJSONMembers(_, _)
EncodeJSONMembers(t, msg) ==
    LET sch == Schema(t)
        member(f) ==
            LET val == msg[f.name]
            IN  IF IsDefault(f.kind, val) THEN << >>
                ELSE CASE f.kind = "uint32" -> <<JPair(f.json, JNum(val))>>
                       [] f.kind = "opt_uint32" ->
                            <<JPair(f.json, JNum(val.val))>>
                       [] f.kind = "opt_string" ->
                            <<JPair(f.json, JStr(val.val))>>
                       [] f.kind = "bool" -> <<JPair(f.json, JBool(val))>>
                       [] f.kind = "rep_uint32" ->
                            <<JPair(f.json, JArray(val))>>
                       [] f.kind \in {"uint64", "sint64", "string"} ->
                            <<JPair(f.json, JStr(val))>>
                       [] f.kind = "bytes" -> <<JPair(f.json, JBase64(val))>>
                       [] f.kind = "duration" ->
                            <<JPair(f.json, JStr([seconds |-> val.seconds,
                                                  nanos |-> val.nanos]))>>
                       [] f.kind = "map_string" ->
                            LET ks == SortedSeq(DOMAIN val.kv)
                            IN  <<JPair(f.json, JObject(
                                    [i \in 1..Len(ks) |->
                                       JPair(JStr(ks[i]),
                                             JStr(val.kv[ks[i]]))]))>>
                       [] f.kind = "map_node" ->
                            LET ks == SortedSeq(DOMAIN val.kv)
                            IN  <<JPair(f.json, JObject(
                                    [i \in 1..Len(ks) |->
                                       JPair(JStr(ks[i]),
                                             JObject(EncodeJSONMembers(
                                                 "NodeStatusResponse",
                                                 val.kv[ks[i]].val)))]))>>
    IN  Concat([i \in 1..Len(sch) |-> member(sch[i])])

\* protojson.Marshal: the members between braces.
EncodeJSON(t, msg) ==
    <<[k |-> "{"]>> \o EncodeJSONMembers(t, msg) \o <<[k |-> "}"]>>

SeqToSet(sq) == {sq[i] : i \in DOMAIN sq}

\* m[k] = e on a Go map's entries.
Put(f, key, val) ==
    [j \in DOMAIN f \cup {key} |-> IF j = key THEN val ELSE f[j]]

Failed(msg) == [ok |-> FALSE, msg |-> msg]
Decoded(msg) == [ok |-> TRUE, msg |-> msg]

\* proto.Unmarshal into msg: a token that is not a field is malformed
\* input; a field the message does not declare (by number and wire type)
\* is skipped; a declared field is stored, a map field entry by entry.
RECURSIVE DecodeBinaryInto(_, _, _)
DecodeBinaryInto(t, buf, msg) ==
    IF Len(buf) = 0 THEN Decoded(msg)
    ELSE
      LET tok == Head(buf)
      IN  IF tok.k # "fld" THEN Failed(msg)
          ELSE
            LET fs == {f \in SeqToSet(Schema(t)) :
                         f.num = tok.num /\ WireType(f.kind) = tok.wt}
            IN  IF fs = {} THEN DecodeBinaryInto(t, Tail(buf), msg)
                ELSE
                  LET f == CHOOSE g \in fs : TRUE
                      nested == DecodeBinaryInto("NodeStatusResponse",
                                                 tok.val.value, ZeroWireNode)
                      field ==
                        CASE f.kind \in {"uint32", "uint64", "string", "bytes",
                                         "bool", "rep_uint32"} ->
                                Recast(tok, f.kind)
                          [] f.kind \in {"opt_uint32", "opt_string"} ->
                                Ptr(Recast(tok, f.kind))
                          [] f.kind = "sint64" -> UnZigZag(tok.val)
                          [] f.kind = "duration" ->
                                [isNil |-> FALSE, seconds |-> tok.val.seconds,
                                 nanos |-> tok.val.nanos]
                          [] f.kind = "map_string" ->
                                MakeMap(Put(msg[f.name].kv, tok.val.key,
                                            tok.val.value))
                          [] f.kind = "map_node" ->
                                MakeMap(Put(msg[f.name].kv, tok.val.key,
                                            Ptr(nested.msg)))
                  IN  IF f.kind = "map_node" /\ ~ nested.ok THEN Failed(msg)
                      ELSE DecodeBinaryInto(t, Tail(buf),
                                            [msg EXCEPT ![f.name] = field])

DecodeBinary(t, buf) == DecodeBinaryInto(t, buf, ZeroWire(t))

\* The JSON form each type of field is read from.
JSONForm(kind) ==
    CASE kind \in {"uint32", "opt_uint32"} -> "number"
      [] kind \in {"uint64", "sint64", "string", "duration", "opt_string"} ->
            "string"
      [] kind = "bool" -> "bool"
      [] kind = "rep_uint32" -> "array"
      [] kind = "bytes" -> "base64"
      [] kind \in {"map_string", "map_node"} -> "object"

RECURSIVE StringMap(_, _)
StringMap(members, f) ==
    IF Len(members) = 0 THEN f
    ELSE StringMap(Tail(members),
                   Put(f, Head(members).key.val, Head(members).val.val))

\* protojson.Unmarshal of the members of an object into msg: a member
\* whose label the message does not declare, or whose value has the
\* wrong form, is an error.
RECURSIVE DecodeJSONMembers(_, _, _)
RECURSIVE NodeMap(_, _)

NodeMap(members, f) ==
    IF Len(members) = 0 THEN Decoded(f)
    ELSE
      LET e == Head(members)
          node == IF e.val.t = "object"
                  THEN DecodeJSONMembers("NodeStatusResponse", e.val.val,
                                         ZeroWireNode)
                  ELSE Failed(ZeroWireNode)
      IN  IF ~ node.ok THEN Failed(f)
          ELSE NodeMap(Tail(members), Put(f, e.key.val, Ptr(node.msg)))

DecodeJSONMembers(t, members, msg) ==
    IF Len(members) = 0 THEN Decoded(msg)
    ELSE
      LET e == Head(members)
          fs == IF e.k = "pair"
                THEN {f \in SeqToSet(Schema(t)) : f.json = e.key}
                ELSE {}
      IN  IF fs = {} THEN Failed(msg)
          ELSE
            LET f == CHOOSE g \in fs : TRUE
                nodes == NodeMap(e.val.val, msg[f.name].kv)
                field ==
                  CASE f.kind \in {"uint32", "uint64", "sint64", "string",
                                   "bytes", "bool", "rep_uint32"} -> e.val.val
                    [] f.kind \in {"opt_uint32", "opt_string"} ->
                          Ptr(e.val.val)
                    [] f.kind = "duration" ->
                          [isNil |-> FALSE, seconds |-> e.val.val.seconds,
                           nanos |-> e.val.val.nanos]
                    [] f.kind = "map_string" ->
                          MakeMap(StringMap(e.val.val, msg[f.name].kv))
                    [] f.kind = "map_node" -> MakeMap(nodes.msg)
            IN  IF e.val.t # JSONForm(f.kind) THEN Failed(msg)
                ELSE IF f.kind = "map_node" /\ ~ nodes.ok THEN Failed(msg)
                ELSE DecodeJSONMembers(t, Tail(members),
                                       [msg EXCEPT ![f.name] = field])

\* protojson.Unmarshal: the body is one object.
DecodeJSON(t, buf) ==
    IF Len(buf) < 2 THEN Failed(ZeroWire(t))
    ELSE IF buf[1].k # "{" \/ buf[Len(buf)].k # "}" THEN Failed(ZeroWire(t))
    ELSE DecodeJSONMembers(t, SubSeq(buf, 2, Len(buf) - 1), ZeroWire(t))

----------------------------------------------------------------------------
(* readResponse                                                            *)

StatusLengthRequired == 411

\* headers.ContentTypeBinary and the JSON content type.
ContentTypeBinary == "application/x-protobuf"
ContentTypeJSON == "application/json"

Error(code, msg) == [type |-> "kms.Error", code |-> code, msg |-> msg]
ErrShortBody == [type |-> "io", code |-> 0, msg |-> "unexpected EOF"]
ErrBinary == [type |-> "proto", code |-> 0, msg |-> "cannot parse invalid wire-format data"]
ErrJSON == [type |-> "protojson", code |-> 0, msg |-> "syntax error"]

\* Faulty variant of SelectDecoder: the test of the content type is
\* inverted.
SelectDecoder_Inverted(r) ==
    IF r.ContentType # ContentTypeBinary THEN "binary" ELSE "json"

\* Faulty variant of SelectDecoder: the decoder is picked by the look of
\* the body, and by the content type only for an empty body.
SelectDecoder_Sniff(r) ==
    IF r.Body # << >> THEN (IF Head(r.Body).k = "{" THEN "json" ELSE "binary")
    ELSE IF r.ContentType = ContentTypeBinary THEN "binary" ELSE "json"

\* The decoder readResponse picks for a response.
SelectDecoder(r) ==
    IF r.ContentType = ContentTypeBinary THEN "binary" ELSE "json"

\* Faulty variant of readBody: what the decoder read before it failed is
\* handed to UnmarshalPB all the same.
readBody_PartialWrite(b, t, r, target) ==
    IF Len(r.Body) < r.ContentLength
    THEN {[err |-> ErrShortBody, val |-> target, nread |-> Len(r.Body),
           decoder |-> "none"]}
    ELSE
      LET buf == SubSeq(r.Body, 1, r.ContentLength)
          dec == SelectDecoder(r)
          p == IF dec = "binary" THEN DecodeBinary(t, buf)
               ELSE DecodeJSON(t, buf)
      IN  {[err |-> IF p.ok THEN o.err
                    ELSE IF dec = "binary" THEN ErrBinary ELSE ErrJSON,
            val |-> o.val, nread |-> r.ContentLength,
            decoder |-> dec] : o \in UnmarshalPB(b, t, target, p.msg)}

\* Faulty variant of readBody: the body is read to its end, whatever the
\* content length says.
readBody_ReadAll(b, t, r, target) ==
    LET dec == SelectDecoder(r)
        p == IF dec = "binary" THEN DecodeBinary(t, r.Body)
             ELSE DecodeJSON(t, r.Body)
    IN  IF ~ p.ok
        THEN {[err |-> IF dec = "binary" THEN ErrBinary ELSE ErrJSON,
               val |-> target, nread |-> Len(r.Body), decoder |-> dec]}
        ELSE {[err |-> o.err, val |-> o.val, nread |-> Len(r.Body),
               decoder |-> dec] : o \in UnmarshalPB(b, t, target, p.msg)}

\* The part of readResponse after the check of the content length: the
\* body is read in full, decoded by the selected decoder and handed to
\* UnmarshalPB.  Outcomes [err, val, nread, decoder] of one call: val is
\* the target after the call, nread the body bytes consumed and decoder
\* the decoder that ran.
readBody(b, t, r, target) ==
    IF Len(r.Body) < r.ContentLength
    THEN {[err |-> ErrShortBody, val |-> target, nread |-> Len(r.Body),
           decoder |-> "none"]}
    ELSE
      LET buf == SubSeq(r.Body, 1, r.ContentLength)
          dec == SelectDecoder(r)
          p == IF dec = "binary" THEN DecodeBinary(t, buf)
               ELSE DecodeJSON(t, buf)
      IN  IF ~ p.ok
          THEN {[err |-> IF dec = "binary" THEN ErrBinary ELSE ErrJSON,
                 val |-> target, nread |-> r.ContentLength, decoder |-> dec]}
          ELSE {[err |-> o.err, val |-> o.val, nread |-> r.ContentLength,
                 decoder |-> dec] : o \in UnmarshalPB(b, t, target, p.msg)}

\* Faulty variant of readResponse: an unknown content length is read as
\* an empty body.
readResponse_NoLengthCheck(b, t, r, target) ==
    readBody(b, t, [r EXCEPT !.ContentLength = IF @ < 0 THEN 0 ELSE @],
             target)

\* readResponse(r, target)
readResponse(b, t, r, target) ==
    IF r.ContentLength < 0
    THEN {[err |-> Error(StatusLengthRequired,
                         "request content length is negative"),
           val |-> target, nread |-> 0, decoder |-> "none"]}
    ELSE readBody(b, t, r, target)

----------------------------------------------------------------------------
(* The values the calls are made on                                        *)

InInt(b, n) == MinInt(b) <= n /\ n <= MaxInt(b)

\* Values of an int field: around zero, around the end of the wire's
\* range and at the ends of int's own range.
IntValues(b) ==
    {n \in {-1, 0, 1, 2, MaxUint32, MaxUint32 + 1, MaxUint32 + 2,
            MinInt(b), MaxInt(b)} : InInt(b, n)}

UintValues(b) ==
    {n \in {0, 1, MaxUint32, MaxUint32 + 1, MaxUint(b)} : n <= MaxUint(b)}

Uint64Values == {0, 1, MaxUint64}

Uint32Values == {0, 1, 2 ^ (WireBits - 1), MaxUint32}

Int64Values == {-1, 0, 1, 2 ^ (WireBits - 1), - (2 ^ WireBits), MinInt64, MaxInt64}

DurationValues == {-1500000000, -1, 0, 1, 1500000000}

ByteStrings == {<< >>, <<1>>, <<2, 0>>}

Strings == {"", "a"}

Roles == {"", "Leader", "Follower", "Candidate", "Observer"}

Fn1(k, e) == [j \in {k} |-> e]
Fn2(k1, e1, k2, e2) == [j \in {k1, k2} |-> IF j = k1 THEN e1 ELSE e2]

\* Maps of node IDs to addresses, as a caller can build them.
AddrMaps(b) ==
    {mp \in {NilMap, MakeMap(<< >>), MakeMap(Fn1(0, "a")),
             MakeMap(Fn2(1, "a", 2, "b")), MakeMap(Fn1(-1, "a")),
             MakeMap(Fn2(0, "a", MaxUint32 + 1, "b"))} :
        \A k \in Keys(mp) : InInt(b, k)}

FullNode ==
    [Version |-> "2023-12-01T16-06-52Z", APIVersion |-> "v1",
     Endpoint |-> "host:7373", Role |-> "Leader", Commit |-> 2,
     Nodes |-> MakeMap(Fn2(0, "a", 1, "b")), ID |-> 1, LeaderID |-> 1,
     LastHeartbeat |-> 1, HeartbeatInterval |-> 2, ElectionTimeout |-> 6,
     UpTime |-> 1500000000, OS |-> "linux", CPUArch |-> "amd64",
     CPUs |-> 2, UsableCPUs |-> 1, HeapMemInUse |-> 3, StackMemInUse |-> 1]

\* FullNode with one field changed, and the zero value.
NodeInputs(b) ==
    {ZeroNode, FullNode}
    \cup {[FullNode EXCEPT !.Version = a] : a \in Strings}
    \cup {[FullNode EXCEPT !.APIVersion = a] : a \in Strings}
    \cup {[FullNode EXCEPT !.Endpoint = a] : a \in Strings}
    \cup {[FullNode EXCEPT !.Role = a] : a \in Roles}
    \cup {[FullNode EXCEPT !.Commit = n] : n \in Uint64Values}
    \cup {[FullNode EXCEPT !.Nodes = mp] : mp \in AddrMaps(b)}
    \cup {[FullNode EXCEPT !.ID = n] : n \in IntValues(b)}
    \cup {[FullNode EXCEPT !.LeaderID = n] : n \in IntValues(b)}
    \cup {[FullNode EXCEPT !.LastHeartbeat = d] : d \in DurationValues}
    \cup {[FullNode EXCEPT !.HeartbeatInterval = d] : d \in DurationValues}
    \cup {[FullNode EXCEPT !.ElectionTimeout = d] : d \in DurationValues}
    \cup {[FullNode EXCEPT !.UpTime = d] : d \in DurationValues}
    \cup {[FullNode EXCEPT !.OS = a] : a \in Strings}
    \cup {[FullNode EXCEPT !.CPUArch = a] : a \in Strings}
    \cup {[FullNode EXCEPT !.CPUs = n] : n \in UintValues(b)}
    \cup {[FullNode EXCEPT !.UsableCPUs = n] : n \in UintValues(b)}
    \cup {[FullNode EXCEPT !.HeapMemInUse = n] : n \in Uint64Values}
    \cup {[FullNode EXCEPT !.StackMemInUse = n] : n \in Uint64Values}

\* NodesUp maps a caller can build; an entry may be a nil pointer.
UpMaps(b) ==
    {mp \in {NilMap, MakeMap(<< >>), MakeMap(Fn1(1, Ptr(FullNode))),
             MakeMap(Fn2(0, Ptr(ZeroNode), 1, Ptr(FullNode))),
             MakeMap(Fn1(1, NilPtr)),
             MakeMap(Fn2(1, Ptr(FullNode), 2, NilPtr)),
             MakeMap(Fn2(0, Ptr(FullNode), MaxUint32 + 1, Ptr(ZeroNode)))} :
        \A k \in Keys(mp) : InInt(b, k)}

DownMaps(b) ==
    {mp \in {NilMap, MakeMap(Fn1(2, "a")), MakeMap(Fn1(1, "a")),
             MakeMap(Fn2(0, "a", MaxUint32 + 1, "b"))} :
        \A k \in Keys(mp) : InInt(b, k)}

\* The values MarshalPB is called on.
Inputs(b, t) ==
    CASE t = "EncryptResponse" ->
            [Version : IntValues(b), Ciphertext : ByteStrings]
      [] t = "DecryptResponse" -> [Plaintext : ByteStrings]
      [] t = "GenerateKeyResponse" ->
            [Version : IntValues(b), Plaintext : ByteStrings,
             Ciphertext : {<< >>, <<1>>}]
      [] t = "NodeStatusResponse" -> NodeInputs(b)
      [] t = "StatusResponse" ->
            [NodesUp : UpMaps(b), NodesDown : DownMaps(b)]

FullWireNode ==
    [Version |-> "2023-12-01T16-06-52Z", APIVersion |-> "v1",
     Addr |-> "host:7373", UpTime |-> Duration(1500000000),
     Role |-> "Follower", Commit |-> 2,
     Nodes |-> MakeMap(Fn2(0, "a", 1, "b")), ID |-> 1, LeaderID |-> 0,
     LastHeartbeat |-> Duration(1), HeartbeatInterval |-> Duration(2),
     ElectionTimeout |-> Duration(6), OS |-> "linux", Arch |-> "amd64",
     CPUs |-> 2, UsableCPUs |-> 1, HeapMemInUse |-> 3, StackMemInUse |-> 1]

WireDurations == {NilDuration} \cup {Duration(d) : d \in DurationValues}

WireAddrMaps ==
    {NilMap, MakeMap(Fn1(0, "a")), MakeMap(Fn2(1, "a", MaxUint32, "b"))}

\* Node status messages a peer can send: FullWireNode with one field
\* changed, and the empty message.
WireNodeInputs ==
    {ZeroWireNode, FullWireNode}
    \cup {[FullWireNode EXCEPT !.Role = a] : a \in Roles}
    \cup {[FullWireNode EXCEPT !.Nodes = mp] : mp \in WireAddrMaps}
    \cup {[FullWireNode EXCEPT !.ID = n] : n \in Uint32Values}
    \cup {[FullWireNode EXCEPT !.LeaderID = n] : n \in Int64Values}
    \cup {[FullWireNode EXCEPT !.UpTime = d] : d \in WireDurations}
    \cup {[FullWireNode EXCEPT !.LastHeartbeat = d] : d \in WireDurations}
    \cup {[FullWireNode EXCEPT !.CPUs = n] : n \in Uint32Values}

WireUpMaps ==
    {NilMap, MakeMap(Fn1(1, Ptr(FullWireNode))),
     MakeMap(Fn2(1, Ptr(FullWireNode), 2, Ptr(ZeroWireNode))),
     MakeMap(Fn1(MaxUint32, Ptr(FullWireNode))),
     MakeMap(Fn1(1, NilPtr))}

WireDownMaps ==
    {NilMap, MakeMap(Fn1(1, "a")), MakeMap(Fn2(2, "a", 3, "b")),
     MakeMap(Fn1(MaxUint32, "a"))}

\* The wire messages UnmarshalPB is called on that no MarshalPB of this
\* program wrote: what a peer sent, or what a caller built.
WireInputs(t) ==
    CASE t = "EncryptResponse" ->
            [Version : Uint32Values, Ciphertext : ByteStrings]
      [] t = "DecryptResponse" -> [Plaintext : ByteStrings]
      [] t = "GenerateKeyResponse" ->
            [Version : Uint32Values, Plaintext : ByteStrings,
             Ciphertext : {<< >>, <<1>>}]
      [] t = "NodeStatusResponse" -> WireNodeInputs
      [] t = "StatusResponse" ->
            [NodesUp : WireUpMaps, NodesDown : WireDownMaps]

\* A target that already holds a value.
UsedValue(t) ==
    CASE t = "EncryptResponse" -> [Version |-> 2, Ciphertext |-> <<3>>]
      [] t = "DecryptResponse" -> [Plaintext |-> <<3>>]
      [] t = "GenerateKeyResponse" ->
            [Version |-> 2, Plaintext |-> <<3>>, Ciphertext |-> <<3>>]
      [] t = "NodeStatusResponse" ->
            [FullNode EXCEPT !.UpTime = 1, !.Role = "Candidate", !.ID = 2,
                             !.Nodes = MakeMap(Fn1(3, "c"))]
      [] t = "StatusResponse" ->
            [NodesUp |-> MakeMap(Fn1(3, Ptr(FullNode))),
             NodesDown |-> MakeMap(Fn1(2, "c"))]

Targets(t) == {ZeroValue(t), UsedValue(t)}

NoResponse == [ContentLength |-> 0, Body |-> << >>, ContentType |-> ""]

\* Whether the encoders can write m: no map of it holds a nil message.
Encodable(t, w) ==
    t = "StatusResponse" => \A k \in Keys(w.NodesUp) : ~ w.NodesUp.kv[k].isNil

----------------------------------------------------------------------------
(* Request messages: the values a caller builds                            *)

\* What a caller wants of an optional field: leave it out, or set it.
Want(present, val) == [present |-> present, val |-> val]

OptKinds == {"opt_uint32", "opt_string"}

\* The generated type of a request message.
GoType(t) == IF t \in GoRequestTypes THEN t ELSE ShortName(t)

\* The fields of t that the generated type holds by pointer.
Optional(t) ==
    LET sch == RequestSchema(GoType(t))
    IN  {sch[i].name : i \in {j \in DOMAIN sch : sch[j].kind \in OptKinds}}

PlainValues(kind) ==
    CASE kind \in {"uint32", "opt_uint32"} -> {0, 1, 32}
      [] kind \in {"string", "opt_string"} -> {"", "AES256"}
      [] kind = "bool" -> BOOLEAN
      [] kind = "bytes" -> {<< >>, <<1>>}
      [] kind = "rep_uint32" -> {<< >>, <<1, 2>>}

Wants(t) ==
    LET sch == RequestSchema(GoType(t))
        opt == {sch[i] : i \in {j \in DOMAIN sch : sch[j].kind \in OptKinds}}
    IN  IF opt = {} THEN {Want(FALSE, 0)}
        ELSE LET kind == (CHOOSE f \in opt : TRUE).kind
             IN  {Want(FALSE, ZeroField(IF kind = "opt_uint32" THEN "uint32"
                                        ELSE "string"))}
                 \cup {Want(TRUE, val) : val \in PlainValues(kind)}

\* The assignment of a wanted value to a field: through a pointer where the
\* type has one (x.Length = &n), as the value itself otherwise.
Store(kind, w) ==
    IF kind \in OptKinds
    THEN IF w.present THEN Ptr(w.val) ELSE NilPtr
    ELSE IF w.present THEN w.val ELSE ZeroField(kind)

\* protoreflect's Has: a pointer field is present when it is not nil, any
\* other field when it is not its zero value.
Has(kind, val) ==
    CASE kind \in OptKinds -> ~ val.isNil
      [] kind \in {"uint32"} -> val # 0
      [] kind = "string" -> val # ""
      [] kind = "bool" -> val
      [] kind \in {"bytes", "rep_uint32"} -> Len(val) # 0

\* GetLength, GetType: the value, the zero value for a nil pointer.
Get(kind, val) ==
    CASE kind = "opt_uint32" -> IF val.isNil THEN 0 ELSE val.val
      [] kind = "opt_string" -> IF val.isNil THEN "" ELSE val.val
      [] OTHER -> val

\* The messages of type t a caller can build who wants w of the optional
\* field.
RECURSIVE Fill(_, _, _, _)
Fill(t, sch, w, acc) ==
    IF sch = << >> THEN acc
    ELSE LET f == Head(sch)
             vals == IF f.name \in Optional(t) THEN {Store(f.kind, w)}
                     ELSE PlainValues(f.kind)
         IN  Fill(t, Tail(sch), w,
                  {[msg EXCEPT ![f.name] = val] : msg \in acc, val \in vals})

RequestValues(t, w) == Fill(t, RequestSchema(t), w, {ZeroRequest(t)})

NoRequest == [pc |-> "none"]

----------------------------------------------------------------------------
(* The package-level variables of request.pb.go                            *)

\* file_request_proto_rawDesc: the descriptor of the file; gzip counts how
\* many times the bytes went through CompressGZIP.
file_request_proto_rawDesc == [bytes |-> "request.proto", gzip |-> 0]

\* protoimpl.X.CompressGZIP
CompressGZIP(data) == [data EXCEPT !.gzip = @ + 1]

\* The variables as the program starts: a sync.Once that has not run (done
\* false, its mutex m held by no caller) and the descriptor as it was
\* generated.  compressed counts the calls of CompressGZIP.
Package ==
    [rawDescOnce |-> [done |-> FALSE, m |-> 0],
     rawDescData |-> file_request_proto_rawDesc,
     compressed |-> 0]

----------------------------------------------------------------------------
(* The state machine: one value is converted to its wire message, or a     *)
(* peer's message arrives; the message is then converted back with         *)
(* UnmarshalPB, or sent as an HTTP response and read with readResponse.    *)

Init ==
    /\ build \in Builds
    /\ typ \in Types
    /\ \/ /\ x \in Inputs(build, typ)
          /\ m = ZeroWire(typ)
          /\ origin = "none"
          /\ pc = "start"
       \/ /\ x = ZeroValue(typ)
          /\ m \in WireInputs(typ)
          /\ origin = "peer"
          /\ pc = "wire"
    /\ v0 \in Targets(typ)
    /\ v = v0
    /\ resp = NoResponse
    /\ err = NoError
    /\ nread = 0
    /\ decoder = "none"
    /\ req = NoRequest
    /\ calls = << >>
    /\ bufs = << >>
    /\ pkg = Package

Finish(o, done) == IF o.err = Panic THEN "panic" ELSE done

\* x.MarshalPB(m)
CallMarshalPB ==
    /\ pc = "start"
    /\ \E o \in MarshalPB(build, typ, x, m) :
          /\ m' = o.val
          /\ err' = o.err
          /\ pc' = Finish(o, "wire")
    /\ origin' = "MarshalPB"
    /\ UNCHANGED <<build, typ, x, resp, v0, v, nread, decoder>>
    /\ UNCHANGED <<req, calls, bufs, pkg>>

\* v.UnmarshalPB(m)
CallUnmarshalPB ==
    /\ pc = "wire"
    /\ \E o \in UnmarshalPB(build, typ, v, m) :
          /\ v' = o.val
          /\ err' = o.err
          /\ pc' = Finish(o, "unmarshalled")
    /\ UNCHANGED <<build, typ, x, m, origin, resp, v0, nread, decoder>>
    /\ UNCHANGED <<req, calls, bufs, pkg>>

\* The transport delivers m in one of the encodings, under some content
\* type and with some content length: the right one, an unknown one (-1),
\* or one that is shorter or longer than the body.
Transport ==
    /\ pc = "wire"
    /\ Encodable(typ, m)
    /\ \E enc \in {"binary", "json"},
          ct \in {ContentTypeBinary, ContentTypeJSON, ""} :
          LET body == IF enc = "binary" THEN EncodeBinary(typ, m)
                      ELSE EncodeJSON(typ, m)
          IN  \E cl \in {-1, 0, Len(body) - 1, Len(body), Len(body) + 1} :
                 resp' = [ContentLength |-> cl, Body |-> body,
                          ContentType |-> ct]
    /\ pc' = "response"
    /\ UNCHANGED <<build, typ, x, m, origin, v0, v, err, nread, decoder>>
    /\ UNCHANGED <<req, calls, bufs, pkg>>

\* readResponse(resp, v)
CallReadResponse ==
    /\ pc = "response"
    /\ \E o \in readResponse(build, typ, resp, v) :
          /\ v' = o.val
          /\ err' = o.err
          /\ nread' = o.nread
          /\ decoder' = o.decoder
          /\ pc' = Finish(o, "read")
    /\ UNCHANGED <<build, typ, x, m, origin, resp, v0>>
    /\ UNCHANGED <<req, calls, bufs, pkg>>

Next ==
    \/ CallMarshalPB
    \/ CallUnmarshalPB
    \/ Transport
    \/ CallReadResponse

Spec == Init /\ [][Next]_vars

----------------------------------------------------------------------------
(* The state machine of a request: a caller builds a request message, the  *)
(* message is written in one of the encodings and read back from it.       *)

\* No call on a response is followed.
NoCall ==
    /\ typ = "EncryptResponse"
    /\ x = ZeroValue(typ)
    /\ m = ZeroWire(typ)
    /\ origin = "none"
    /\ resp = NoResponse
    /\ v0 = ZeroValue(typ)
    /\ v = v0
    /\ err = NoError
    /\ nread = 0
    /\ decoder = "none"
    /\ pc = "idle"

RequestInit ==
    /\ build \in Builds
    /\ NoCall
    /\ calls = << >>
    /\ bufs = << >>
    /\ pkg = Package
    /\ \E t \in RequestTypes :
          \E w \in Wants(t) :
             \E msg \in RequestValues(t, w) :
                req = [pc |-> "built", typ |-> t, want |-> w, msg |-> msg,
                       enc |-> "none", body |-> << >>, ok |-> TRUE,
                       out |-> ZeroRequest(t)]

\* proto.Marshal(msg) or protojson.Marshal(msg)
MarshalRequest ==
    /\ req.pc = "built"
    /\ \E enc \in {"binary", "json"} :
          req' = [req EXCEPT
                    !.pc = "sent",
                    !.enc = enc,
                    !.body = IF enc = "binary"
                             THEN EncodeBinary(req.typ, req.msg)
                             ELSE EncodeJSON(req.typ, req.msg)]
    /\ UNCHANGED <<build, typ, x, m, origin, resp, v0, v, err, nread,
                   decoder, pc, calls, bufs, pkg>>

\* proto.Unmarshal(body, out) or protojson.Unmarshal(body, out) into a new
\* message.
UnmarshalRequest ==
    /\ req.pc = "sent"
    /\ LET p == IF req.enc = "binary" THEN DecodeBinary(req.typ, req.body)
                ELSE DecodeJSON(req.typ, req.body)
       IN  req' = [req EXCEPT !.pc = "received", !.ok = p.ok, !.out = p.msg]
    /\ UNCHANGED <<build, typ, x, m, origin, resp, v0, v, err, nread,
                   decoder, pc, calls, bufs, pkg>>

\* The declaration of the same message on the other side: request.proto's
\* for a generated type, the generated type for a message of request.proto.
Peer(t) == IF t \in GoRequestTypes THEN FullName(t) ELSE ShortName(t)

\* proto.Unmarshal(body, out) or protojson.Unmarshal(body, out) by a reader
\* that holds the other declaration of the message.
UnmarshalAsPeer ==
    /\ req.pc = "sent"
    /\ GoType(req.typ) \in ProtoRequestNames
    /\ LET p == IF req.enc = "binary"
                THEN DecodeBinary(Peer(req.typ), req.body)
                ELSE DecodeJSON(Peer(req.typ), req.body)
       IN  req' = [req EXCEPT !.pc = "received by peer", !.ok = p.ok,
                              !.out = p.msg]
    /\ UNCHANGED <<build, typ, x, m, origin, resp, v0, v, err, nread,
                   decoder, pc, calls, bufs, pkg>>

RequestNext ==
    \/ MarshalRequest
    \/ UnmarshalRequest
    \/ UnmarshalAsPeer

RequestSpec == RequestInit /\ [][RequestNext]_vars

----------------------------------------------------------------------------
(* Concurrent calls: each call has its own response, wire message and      *)
(* target; the steps of the calls interleave.                              *)

NumCalls == 2

CallIds == 1..NumCalls

\* The response that carries the message w of type t whole in one encoding.
ResponseOf(t, w, enc) ==
    LET body == IF enc = "binary" THEN EncodeBinary(t, w) ELSE EncodeJSON(t, w)
    IN  [ContentLength |-> Len(body), Body |-> body,
         ContentType |-> IF enc = "binary" THEN ContentTypeBinary
                         ELSE ContentTypeJSON]

Input(op, t, val, w, r) ==
    [op |-> op, typ |-> t, x |-> val, m |-> w, resp |-> r]

\* The calls that are made: readResponse on a binary and on a JSON
\* response, on one of unknown length, on a short one and on one under the
\* wrong content type; UnmarshalPB of a status, and of one with a nil
\* entry; MarshalPB of a node status.
ConcInputs ==
    LET enc == [Version |-> 1, Ciphertext |-> <<1>>]
        key == [Version |-> 2, Plaintext |-> <<3>>, Ciphertext |-> <<4>>]
        st == [NodesUp |-> MakeMap(Fn1(1, Ptr(FullWireNode))),
               NodesDown |-> MakeMap(Fn1(2, "b"))]
        bad == [NodesUp |-> MakeMap(Fn1(1, NilPtr)), NodesDown |-> NilMap]
    IN  <<Input("readResponse", "EncryptResponse", ZeroValue("EncryptResponse"),
                enc, ResponseOf("EncryptResponse", enc, "binary")),
          Input("readResponse", "NodeStatusResponse", ZeroNode,
                FullWireNode,
                ResponseOf("NodeStatusResponse", FullWireNode, "json")),
          Input("readResponse", "GenerateKeyResponse",
                ZeroValue("GenerateKeyResponse"), key,
                [ResponseOf("GenerateKeyResponse", key, "binary")
                   EXCEPT !.ContentLength = -1]),
          Input("readResponse", "GenerateKeyResponse",
                ZeroValue("GenerateKeyResponse"), key,
                [ResponseOf("GenerateKeyResponse", key, "json")
                   EXCEPT !.ContentLength = @ + 1]),
          Input("readResponse", "EncryptResponse", ZeroValue("EncryptResponse"),
                enc,
                [ResponseOf("EncryptResponse", enc, "json")
                   EXCEPT !.ContentType = ContentTypeBinary]),
          Input("UnmarshalPB", "StatusResponse", ZeroValue("StatusResponse"),
                st, NoResponse),
          Input("UnmarshalPB", "StatusResponse", ZeroValue("StatusResponse"),
                bad, NoResponse),
          Input("MarshalPB", "NodeStatusResponse", FullNode, ZeroWireNode,
                NoResponse)>>

\* A call before its first step; the target starts as the zero value.
NewCall(in) ==
    [op |-> in.op, typ |-> in.typ, x |-> in.x, m0 |-> in.m, m |-> in.m,
     resp |-> in.resp, v0 |-> ZeroValue(in.typ), v |-> ZeroValue(in.typ),
     err |-> NoError, pc |-> "start"]

\* A byte of a buffer that make returned and nothing wrote yet.
ZeroByte == [k |-> "nul"]

\* Faulty variant of BufAddr: every call reads the body into one and the
\* same buffer.
BufAddr_Shared(c) == 1

\* The buffer of a call: make([]byte, r.ContentLength) gives each call a
\* buffer of its own.
BufAddr(c) == c

ConcInit ==
    /\ build \in Builds
    /\ NoCall
    /\ req = NoRequest
    /\ bufs = << >>
    /\ pkg = Package
    /\ \E choice \in [CallIds -> DOMAIN ConcInputs] :
          calls = [c \in CallIds |-> NewCall(ConcInputs[choice[c]])]

Others == <<build, typ, x, m, origin, resp, v0, v, err, nread, decoder, pc,
            req, pkg>>

\* readResponse, the check of the content length and the allocation of the
\* buffer.
CheckLength(c) ==
    LET k == calls[c]
    IN  /\ k.op = "readResponse"
        /\ k.pc = "start"
        /\ IF k.resp.ContentLength < 0
           THEN /\ calls' = [calls EXCEPT ![c] =
                               [k EXCEPT
                                  !.err = Error(StatusLengthRequired,
                                      "request content length is negative"),
                                  !.pc = "done"]]
                /\ UNCHANGED bufs
           ELSE /\ bufs' = Put(bufs, BufAddr(c),
                               [i \in 1..k.resp.ContentLength |-> ZeroByte])
                /\ calls' = [calls EXCEPT ![c] = [k EXCEPT !.pc = "read"]]
        /\ UNCHANGED Others

\* readResponse, io.ReadFull(r.Body, buf)
ReadFull(c) ==
    LET k == calls[c]
        n == k.resp.ContentLength
        body == k.resp.Body
    IN  /\ k.pc = "read"
        /\ IF Len(body) < n
           THEN /\ bufs' = [bufs EXCEPT ![BufAddr(c)] =
                              [i \in 1..n |-> IF i <= Len(body) THEN body[i]
                                              ELSE ZeroByte]]
                /\ calls' = [calls EXCEPT ![c] =
                               [k EXCEPT !.err = ErrShortBody, !.pc = "done"]]
           ELSE /\ bufs' = [bufs EXCEPT ![BufAddr(c)] = SubSeq(body, 1, n)]
                /\ calls' = [calls EXCEPT ![c] = [k EXCEPT !.pc = "decode"]]
        /\ UNCHANGED Others

\* readResponse, proto.Unmarshal(buf, p) or protojson.Unmarshal(buf, p)
Decode(c) ==
    LET k == calls[c]
        buf == bufs[BufAddr(c)]
        dec == SelectDecoder(k.resp)
        p == IF dec = "binary" THEN DecodeBinary(k.typ, buf)
             ELSE DecodeJSON(k.typ, buf)
    IN  /\ k.pc = "decode"
        /\ calls' = [calls EXCEPT ![c] =
                       IF p.ok THEN [k EXCEPT !.m = p.msg, !.pc = "unmarshal"]
                       ELSE [k EXCEPT !.err = IF dec = "binary" THEN ErrBinary
                                              ELSE ErrJSON,
                                      !.pc = "done"]]
        /\ UNCHANGED bufs
        /\ UNCHANGED Others

\* v.UnmarshalPB(p), called directly or as the last step of readResponse; a
\* call that aborts unwinds its own goroutine.
Unmarshal(c) ==
    LET k == calls[c]
    IN  /\ \/ k.op = "readResponse" /\ k.pc = "unmarshal"
           \/ k.op = "UnmarshalPB" /\ k.pc = "start"
        /\ \E o \in UnmarshalPB(build, k.typ, k.v, k.m) :
              calls' = [calls EXCEPT ![c] =
                          [k EXCEPT !.v = o.val, !.err = o.err,
                                    !.pc = Finish(o, "done")]]
        /\ UNCHANGED bufs
        /\ UNCHANGED Others

\* x.MarshalPB(m)
Marshal(c) ==
    LET k == calls[c]
    IN  /\ k.op = "MarshalPB"
        /\ k.pc = "start"
        /\ \E o \in MarshalPB(build, k.typ, k.x, k.m) :
              calls' = [calls EXCEPT ![c] =
                          [k EXCEPT !.m = o.val, !.err = o.err,
                                    !.pc = Finish(o, "done")]]
        /\ UNCHANGED bufs
        /\ UNCHANGED Others

ConcNext ==
    \E c \in CallIds :
       \/ CheckLength(c)
       \/ ReadFull(c)
       \/ Decode(c)
       \/ Unmarshal(c)
       \/ Marshal(c)

ConcSpec == ConcInit /\ [][ConcNext]_vars

----------------------------------------------------------------------------
(* Properties                                                              *)

Converted == pc = "unmarshalled" /\ origin = "MarshalPB"
Fresh == v0 = ZeroValue(typ)

\* Two node statuses agree in every field; maps by their entries.
NodeEqual(a, c) ==
    /\ a.Nodes.kv = c.Nodes.kv
    /\ [a EXCEPT !.Nodes = NilMap] = [c EXCEPT !.Nodes = NilMap]

StatusEqual(a, c) ==
    /\ Keys(a.NodesUp) = Keys(c.NodesUp)
    /\ \A k \in Keys(a.NodesUp) :
          NodeEqual(a.NodesUp.kv[k].val, c.NodesUp.kv[k].val)
    /\ a.NodesDown.kv = c.NodesDown.kv

\* C1: MarshalPB into a fresh message followed by UnmarshalPB into a fresh
\* value gives back every field of a NodeStatusResponse and of a
\* StatusResponse.
C1_StatusRoundTrip ==
    (Converted /\ Fresh) =>
        /\ typ = "NodeStatusResponse" => NodeEqual(v, x)
        /\ typ = "StatusResponse" => StatusEqual(v, x)

\* C2: MarshalPB followed by UnmarshalPB gives back the Version, the
\* Plaintext and the Ciphertext of an EncryptResponse, a DecryptResponse and
\* a GenerateKeyResponse.
C2_KeyRoundTrip ==
    (Converted /\ Fresh /\ typ \in {"EncryptResponse", "DecryptResponse",
                                    "GenerateKeyResponse"}) => v = x

\* The response that carries m whole in one encoding under its content
\* type.
Carrier(enc) ==
    LET body == IF enc = "binary" THEN EncodeBinary(typ, m)
                ELSE EncodeJSON(typ, m)
    IN  [ContentLength |-> Len(body), Body |-> body,
         ContentType |-> IF enc = "binary" THEN ContentTypeBinary
                         ELSE ContentTypeJSON]

\* C3: readResponse succeeds on the binary and on the JSON encoding of a
\* message and stores the same value for both.
C3_EncodingTransparent ==
    \A enc \in {"binary", "json"} :
        (pc = "read" /\ resp = Carrier(enc)) =>
            /\ err = NoError
            /\ \A other \in {"binary", "json"} \ {enc} :
                  \A o \in readResponse(build, typ, Carrier(other), v0) :
                      o.err = NoError /\ o.val = v

C3_Witness ==
    /\ pc = "read"
    /\ resp = Carrier("json")
    /\ typ = "StatusResponse"
    /\ Keys(m.NodesUp) # {}
    /\ Keys(v.NodesUp) # {}

\* C4: with a negative content length readResponse returns Error 411,
\* reads no byte, runs no decoder and leaves the target as it was.
C4_LengthRequired ==
    (pc \in {"read", "panic"} /\ resp.ContentLength < 0) =>
        /\ pc = "read"
        /\ err.type = "kms.Error"
        /\ err.code = StatusLengthRequired
        /\ nread = 0
        /\ decoder = "none"
        /\ v = v0

C4_Witness ==
    /\ pc = "read"
    /\ resp.ContentLength < 0
    /\ Len(resp.Body) > 0
    /\ v0 = UsedValue(typ)
    /\ err.code = StatusLengthRequired

\* The numbers MarshalPB narrows are the same before and after.
MarshalKeeps ==
    CASE typ \in {"EncryptResponse", "GenerateKeyResponse"} ->
            m.Version = x.Version
      [] typ = "DecryptResponse" -> TRUE
      [] typ = "NodeStatusResponse" ->
            /\ m.ID = x.ID
            /\ m.CPUs = x.CPUs
            /\ m.UsableCPUs = x.UsableCPUs
            /\ Keys(m.Nodes) = Keys(x.Nodes)
      [] typ = "StatusResponse" ->
            /\ Keys(m.NodesUp) = Keys(x.NodesUp)
            /\ Keys(m.NodesDown) = Keys(x.NodesDown)

UnmarshalKeeps ==
    CASE typ \in {"EncryptResponse", "GenerateKeyResponse"} ->
            v.Version = m.Version
      [] typ = "DecryptResponse" -> TRUE
      [] typ = "NodeStatusResponse" ->
            /\ v.ID = m.ID
            /\ v.CPUs = m.CPUs
            /\ v.UsableCPUs = m.UsableCPUs
            /\ Keys(v.Nodes) = Keys(m.Nodes)
      [] typ = "StatusResponse" ->
            /\ Keys(v.NodesUp) = Keys(m.NodesUp)
            /\ Keys(v.NodesDown) = Keys(m.NodesDown)

\* C5: every conversion between a host integer and a 32-bit wire integer
\* keeps the number or makes MarshalPB / UnmarshalPB return an error.
C5_NarrowingChecked ==
    /\ (pc = "wire" /\ origin = "MarshalPB" /\ err = NoError) => MarshalKeeps
    /\ (pc = "unmarshalled" /\ err = NoError) => UnmarshalKeeps

\* The sign and, when not negative, the number are the same.
SameLeader(a, c) == (a < 0 <=> c < 0) /\ (c >= 0 => a = c)

\* C6: UnmarshalPB yields a negative LeaderID exactly when the wire value is
\* negative and the same number otherwise; MarshalPB likewise.
C6_LeaderIDKept ==
    typ = "NodeStatusResponse" =>
        /\ pc = "unmarshalled" => SameLeader(v.LeaderID, m.LeaderID)
        /\ (pc = "wire" /\ origin = "MarshalPB") =>
              SameLeader(m.LeaderID, x.LeaderID)

\* The node IDs that are keys of both maps of a status.
Overlap(st) == Keys(st.NodesUp) \cap Keys(st.NodesDown)

\* A StatusResponse a client obtained from UnmarshalPB, called directly or
\* by readResponse.
Obtained == typ = "StatusResponse" /\ err = NoError /\ pc \in {"unmarshalled", "read"}

\* C7 as stated: in every StatusResponse a client obtains no node ID is a
\* key of both NodesUp and NodesDown.
C7_Partition == Obtained => Overlap(v) = {}

\* C7 as amended: the result has a node ID in both maps exactly when the
\* wire message has one; UnmarshalPB keeps a partition and does not make
\* one.
C7_PartitionKept ==
    (Obtained /\ (pc = "read" => \E enc \in {"binary", "json"} : resp = Carrier(enc))) =>
        (Overlap(v) = {} <=> Overlap(m) = {})

C7_Witness ==
    /\ Obtained
    /\ pc = "read"
    /\ resp = Carrier("binary")
    /\ Overlap(m) # {}
    /\ Overlap(v) # {}

\* C15: every error readResponse returns is an Error value, with a status
\* code and a message, on each of its failure paths.
C15_StructuredErrors ==
    (pc = "read" /\ err # NoError) => (err.type = "kms.Error" /\ err.code # 0)

\* C16: MarshalPB and UnmarshalPB of NodeStatusResponse and StatusResponse,
\* called directly or by readResponse, return; none of them aborts.
C16_Total ==
    typ \in {"NodeStatusResponse", "StatusResponse"} => pc # "panic"

RoleNames == {"Leader", "Follower", "Candidate"}

\* A NodeStatusResponse a client obtained from UnmarshalPB, called directly
\* or by readResponse on a response that carries the message whole.
ObtainedNode ==
    /\ typ = "NodeStatusResponse"
    /\ err = NoError
    /\ \/ pc = "unmarshalled"
       \/ pc = "read" /\ \E enc \in {"binary", "json"} : resp = Carrier(enc)

OptionalFields ==
    LET sch == RequestSchema(req.typ)
    IN  {f \in {sch[i] : i \in DOMAIN sch} : f.name \in Optional(req.typ)}

\* C14: whether Length or Type was left out or set, be it to the zero
\* value, is what the message read back from either encoding says, and a
\* value that was set is read back.
C14_PresenceKept ==
    req.pc = "received" =>
        /\ req.ok
        /\ \A f \in OptionalFields :
              /\ Has(f.kind, req.out[f.name]) <=> req.want.present
              /\ req.want.present =>
                    Get(f.kind, req.out[f.name]) = req.want.val

RECURSIVE Join(_)
Join(cs) == IF cs = << >> THEN "" ELSE Head(cs) \o Join(Tail(cs))

Lower ==
    {"a", "b", "c", "d", "e", "f", "g", "h", "i", "j", "k", "l", "m", "n",
     "o", "p", "q", "r", "s", "t", "u", "v", "w", "x", "y", "z"}
Digits == {"0", "1", "2", "3", "4", "5", "6", "7", "8", "9"}

\* A label in lowercase snake_case: letters, digits and underscores, the
\* first a letter.
Snake(label) ==
    LET cs == Spell(label)
    IN  /\ Join(cs) = label
        /\ Len(cs) > 0
        /\ cs[1] \in Lower
        /\ \A i \in DOMAIN cs : cs[i] \in Lower \cup Digits \cup {"_"}

AllDecls == RequestProto \o RequestPbGo \o ResponseProto

\* The labels of the members of the JSON body of the request in flight.
BodyLabels ==
    {req.body[i].key : i \in {j \in DOMAIN req.body : req.body[j].k = "pair"}}

\* C20: every declared field has a lowercase snake_case JSON label, the
\* same in request.proto and in the generated type; RemoveIDs is labelled
\* "remove" and AssociatedData "associated_data"; the JSON encoding of a
\* message has these labels, and the response types are encoded under the
\* labels of response.proto.
C20_Labels ==
    /\ \A i \in DOMAIN AllDecls : Snake(JSONName(AllDecls[i]))
    /\ \A i \in DOMAIN RequestPbGo : \A j \in DOMAIN RequestProto :
          LET g == RequestPbGo[i]
              p == RequestProto[j]
          IN  (g.msg = p.msg /\ g.name = p.name) => JSONName(g) = JSONName(p)
    /\ \A i \in DOMAIN AllDecls :
          LET d == AllDecls[i]
          IN  /\ d.name = "RemoveIDs" => JSONName(d) = "remove"
              /\ d.name = "AssociatedData" => JSONName(d) = "associated_data"
    /\ \A t \in Types : \A i \in DOMAIN Schema(t) :
          \E j \in DOMAIN ResponseProto :
             /\ ResponseProto[j].msg = ProtoMessage(t)
             /\ ResponseProto[j].num = Schema(t)[i].num
             /\ JSONName(ResponseProto[j]) = Schema(t)[i].json
    /\ (req.pc \in {"sent", "received"} /\ req.enc = "json") =>
          \A label \in BodyLabels :
             /\ Snake(label)
             /\ \E i \in DOMAIN AllDecls :
                   /\ AllDecls[i].msg = GoType(req.typ)
                   /\ AllDecls[i].json = label

C20_Witness ==
    /\ req.pc = "received"
    /\ req.enc = "json"
    /\ req.typ = "EditClusterRequest"
    /\ "remove" \in BodyLabels
    /\ req.out = req.msg

\* The call c ended as it can end when it runs alone on the same objects.
Alone(c) ==
    LET k == calls[c]
    IN  CASE k.op = "readResponse" ->
               \E o \in readResponse(build, k.typ, k.resp, k.v0) :
                  o.err = k.err /\ o.val = k.v
          [] k.op = "UnmarshalPB" ->
               \E o \in UnmarshalPB(build, k.typ, k.v0, k.m0) :
                  o.err = k.err /\ o.val = k.v /\ k.m = k.m0
          [] k.op = "MarshalPB" ->
               \E o \in MarshalPB(build, k.typ, k.x, k.m0) :
                  o.err = k.err /\ o.val = k.m /\ k.v = k.v0

\* C17: however the steps of concurrent calls on distinct objects
\* interleave, a call that ended has the result and the target value it
\* has when it runs alone.
C17_Independent ==
    \A c \in DOMAIN calls : calls[c].pc \in {"done", "panic"} => Alone(c)

C17_Witness ==
    /\ DOMAIN calls # {}
    /\ \A c \in DOMAIN calls : calls[c].pc = "done"
    /\ calls[1].op = "readResponse" /\ calls[1].err = NoError
    /\ calls[2].op = "readResponse" /\ calls[2].err = NoError
    /\ calls[1].typ # calls[2].typ

----------------------------------------------------------------------------
(* The state machine of a receiver that is used again: a fresh value       *)
(* takes a first message with UnmarshalPB and then a second one.           *)

ReuseInit ==
    /\ build \in Builds
    /\ typ \in Types
    /\ x = ZeroValue(typ)
    /\ m \in WireInputs(typ)
    /\ origin = "peer"
    /\ pc = "wire"
    /\ v0 = ZeroValue(typ)
    /\ v = v0
    /\ resp = NoResponse
    /\ err = NoError
    /\ nread = 0
    /\ decoder = "none"
    /\ req = NoRequest
    /\ calls = << >>
    /\ bufs = << >>
    /\ pkg = Package

\* The caller takes the next message for the receiver it has: v0 is the
\* receiver as the second call finds it.
NextMessage ==
    /\ pc = "unmarshalled"
    /\ origin = "peer"
    /\ m' \in WireInputs(typ)
    /\ v0' = v
    /\ origin' = "peer again"
    /\ pc' = "wire"
    /\ UNCHANGED <<build, typ, x, resp, v, err, nread, decoder>>
    /\ UNCHANGED <<req, calls, bufs, pkg>>

ReuseNext ==
    \/ CallUnmarshalPB
    \/ NextMessage

ReuseSpec == ReuseInit /\ [][ReuseNext]_vars

----------------------------------------------------------------------------
(* readResponse and its target                                             *)

\* What the decoder readResponse selects makes of the first ContentLength
\* bytes of the body.
Parsed ==
    LET buf == SubSeq(resp.Body, 1, resp.ContentLength)
    IN  IF resp.ContentType = ContentTypeBinary THEN DecodeBinary(typ, buf)
        ELSE DecodeJSON(typ, buf)

\* The three ways readResponse fails before it calls UnmarshalPB.
Refused == resp.ContentLength < 0
Short == ~ Refused /\ Len(resp.Body) < resp.ContentLength
Malformed == ~ Refused /\ ~ Short /\ ~ Parsed.ok

\* C22: when readResponse fails (negative content length, body shorter
\* than the content length, body the decoder rejects) it returns an error
\* and the target is what it was before the call; the target only changes
\* when the whole body was read and decoded.
C22_TargetKept ==
    pc = "read" =>
        /\ (Refused \/ Short \/ Malformed) => (err # NoError /\ v = v0)
        /\ err # NoError => v = v0
        /\ v # v0 => (nread = resp.ContentLength /\ Parsed.ok)

\* A body the decoder rejects half way, read into a target that held a
\* value.
C22_Witness ==
    /\ pc = "read"
    /\ Malformed
    /\ resp.ContentLength > 1
    /\ decoder # "none"
    /\ v0 = UsedValue(typ)
    /\ v = v0
    /\ err \in {ErrBinary, ErrJSON}

\* The response with the bytes after the content length cut off.
Trimmed == [resp EXCEPT !.Body = SubSeq(@, 1, resp.ContentLength)]

\* C23: readResponse reads ContentLength bytes of the body and no more.
\* A body that ends earlier is an error and no decoder sees it; bytes
\* after the content length are not read and change nothing of the
\* result; with content length 0 nothing is read.
C23_ExactRead ==
    (pc = "read" /\ ~ Refused) =>
        /\ Short => (err = ErrShortBody /\ decoder = "none" /\ v = v0)
        /\ ~ Short =>
              /\ nread = resp.ContentLength
              /\ \E o \in readResponse(build, typ, Trimmed, v0) :
                    o.err = err /\ o.val = v /\ o.decoder = decoder
        /\ resp.ContentLength = 0 => nread = 0

\* A body with a field after the content length: the fields before it
\* are stored, the field after it is not.
C23_Witness ==
    /\ pc = "read"
    /\ 0 < resp.ContentLength
    /\ resp.ContentLength < Len(resp.Body)
    /\ nread = resp.ContentLength
    /\ err = NoError
    /\ v # v0
    /\ \A o \in readResponse(build, typ,
                              [resp EXCEPT !.ContentLength = Len(resp.Body)],
                              v0) : o.val # v

\* The first ContentLength bytes of the body.
Buf == SubSeq(resp.Body, 1, resp.ContentLength)

\* C24: readResponse picks the decoder by the content type alone: the
\* binary decoder when the header is the binary content type, the JSON
\* decoder for any other header and for none.  One decoder runs; when it
\* rejects the body the call fails with its error, whatever the other
\* decoder would have made of the body.
C24_DecoderByContentType ==
    (pc = "read" /\ ~ Refused /\ ~ Short) =>
        /\ resp.ContentType = ContentTypeBinary =>
              /\ decoder = "binary"
              /\ ~ DecodeBinary(typ, Buf).ok => (err = ErrBinary /\ v = v0)
        /\ resp.ContentType # ContentTypeBinary =>
              /\ decoder = "json"
              /\ ~ DecodeJSON(typ, Buf).ok => (err = ErrJSON /\ v = v0)

\* A binary body that arrives without a content type: the JSON decoder
\* rejects it, and the binary decoder, which would have read it, is not
\* tried.
C24_Witness ==
    /\ pc = "read"
    /\ resp.ContentType = ""
    /\ resp.ContentLength = Len(resp.Body)
    /\ resp.ContentLength > 0
    /\ DecodeBinary(typ, Buf).ok
    /\ decoder = "json"
    /\ err = ErrJSON
    /\ v = v0

----------------------------------------------------------------------------
(* The maps of the status responses                                        *)

\* The target map of a conversion is a map, with an entry for each entry
\* of the source map.
AllKept(src, dst) ==
    ~ dst.isNil /\ Cardinality(Keys(dst)) = Cardinality(Keys(src))

MapsKept(t, src, dst) ==
    CASE t = "NodeStatusResponse" -> AllKept(src.Nodes, dst.Nodes)
      [] t = "StatusResponse" ->
            /\ AllKept(src.NodesUp, dst.NodesUp)
            /\ AllKept(src.NodesDown, dst.NodesDown)
      [] OTHER -> TRUE

\* C25: after MarshalPB and after UnmarshalPB of NodeStatusResponse and
\* StatusResponse each map of the target (Nodes, NodesUp, NodesDown) is
\* non-nil and has as many entries as the map it was converted from: no
\* two node IDs of the source share an entry of the target.
C25_NoNodeLost ==
    /\ (pc = "wire" /\ origin = "MarshalPB") => MapsKept(typ, x, m)
    /\ pc = "unmarshalled" => MapsKept(typ, m, v)

----------------------------------------------------------------------------
(* The two declarations of the request messages                            *)

\* The fields of a message, as a set.
FieldSet(t) == SeqToSet(RequestSchema(t))

\* C26: a request written by the holder of one declaration of a message
\* (the generated Go type, or request.proto) is read by the holder of the
\* other without error and with the same value in every field: a field of
\* the writer is a field of the reader and holds there what was written,
\* and the reader finds no field set that the writer does not have.
C26_SameWireFormat ==
    req.pc = "received by peer" =>
        /\ req.ok
        /\ \A f \in FieldSet(req.typ) :
              \E g \in FieldSet(Peer(req.typ)) :
                 /\ g.name = f.name
                 /\ Get(g.kind, req.out[g.name]) =
                       Get(f.kind, req.msg[f.name])
        /\ \A g \in FieldSet(Peer(req.typ)) :
              (\A f \in FieldSet(req.typ) : f.name # g.name) =>
                  ~ Has(g.kind, req.out[g.name])

----------------------------------------------------------------------------
(* Concurrent calls of Descriptor(): each call goes through                *)
(* file_request_proto_rawDescGZIP, whose sync.Once guards the compression  *)
(* of the descriptor.                                                      *)

\* The index of each message in the file, which its Descriptor returns.
DescriptorIndex(t) ==
    CASE t = "EditClusterRequest" -> 0
      [] t = "CreateKeyRequest" -> 1
      [] t = "AddKeyVersionRequest" -> 2
      [] t = "RemoveKeyVersionRequest" -> 3
      [] t = "EncryptRequest" -> 4
      [] t = "GenerateKeyRequest" -> 5
      [] t = "DecryptRequest" -> 6

NoBytes == [bytes |-> "", gzip |-> 0]

DescInit ==
    /\ build \in Builds
    /\ NoCall
    /\ req = NoRequest
    /\ bufs = << >>
    /\ pkg = Package
    /\ \E choice \in [CallIds -> GoRequestTypes] :
          calls = [c \in CallIds |->
                     [op |-> "Descriptor", typ |-> choice[c], pc |-> "call",
                      tmp |-> NoBytes, ret |-> [bytes |-> NoBytes, path |-> << >>]]]

\* Faulty variant of Free: the mutex excludes nobody.
Free_Always(once) == TRUE

\* Whether the mutex of a sync.Once can be locked.
Free(once) == once.m = 0

\* Once.Do, the fast path: done is loaded.
OnceLoad(c) ==
    /\ calls[c].pc = "call"
    /\ calls' = [calls EXCEPT ![c].pc = IF pkg.rawDescOnce.done THEN "return"
                                        ELSE "lock"]
    /\ UNCHANGED pkg
    /\ UNCHANGED bufs
    /\ UNCHANGED Others

\* Once.Do, the slow path: the mutex is locked and done is looked at again.
OnceLock(c) ==
    /\ calls[c].pc = "lock"
    /\ Free(pkg.rawDescOnce)
    /\ pkg' = [pkg EXCEPT !.rawDescOnce.m = c]
    /\ calls' = [calls EXCEPT ![c].pc = IF pkg.rawDescOnce.done THEN "unlock"
                                        ELSE "compress"]
    /\ UNCHANGED bufs
    /\ UNCHANGED <<build, typ, x, m, origin, resp, v0, v, err, nread,
                   decoder, pc, req>>

\* The function passed to Do: CompressGZIP(file_request_proto_rawDescData)
Compress(c) ==
    /\ calls[c].pc = "compress"
    /\ calls' = [calls EXCEPT ![c].tmp = CompressGZIP(pkg.rawDescData),
                              ![c].pc = "assign"]
    /\ pkg' = [pkg EXCEPT !.compressed = @ + 1]
    /\ UNCHANGED bufs
    /\ UNCHANGED <<build, typ, x, m, origin, resp, v0, v, err, nread,
                   decoder, pc, req>>

\* The function passed to Do: file_request_proto_rawDescData = ...
Assign(c) ==
    /\ calls[c].pc = "assign"
    /\ pkg' = [pkg EXCEPT !.rawDescData = calls[c].tmp]
    /\ calls' = [calls EXCEPT ![c].pc = "store"]
    /\ UNCHANGED bufs
    /\ UNCHANGED <<build, typ, x, m, origin, resp, v0, v, err, nread,
                   decoder, pc, req>>

\* Once.Do: done is stored when the function has returned.
OnceStore(c) ==
    /\ calls[c].pc = "store"
    /\ pkg' = [pkg EXCEPT !.rawDescOnce.done = TRUE]
    /\ calls' = [calls EXCEPT ![c].pc = "unlock"]
    /\ UNCHANGED bufs
    /\ UNCHANGED <<build, typ, x, m, origin, resp, v0, v, err, nread,
                   decoder, pc, req>>

\* Once.Do: the mutex is unlocked.
OnceUnlock(c) ==
    /\ calls[c].pc = "unlock"
    /\ pkg' = [pkg EXCEPT !.rawDescOnce.m = 0]
    /\ calls' = [calls EXCEPT ![c].pc = "return"]
    /\ UNCHANGED bufs
    /\ UNCHANGED <<build, typ, x, m, origin, resp, v0, v, err, nread,
                   decoder, pc, req>>

\* return file_request_proto_rawDescData, and the index of the message
Return(c) ==
    /\ calls[c].pc = "return"
    /\ calls' = [calls EXCEPT
                   ![c].ret = [bytes |-> pkg.rawDescData,
                               path |-> <<DescriptorIndex(calls[c].typ)>>],
                   ![c].pc = "returned"]
    /\ UNCHANGED pkg
    /\ UNCHANGED bufs
    /\ UNCHANGED Others

DescNext ==
    \E c \in CallIds :
        \/ OnceLoad(c)
        \/ OnceLock(c)
        \/ Compress(c)
        \/ Assign(c)
        \/ OnceStore(c)
        \/ OnceUnlock(c)
        \/ Return(c)

DescSpec == DescInit /\ [][DescNext]_vars

\* The calls of Descriptor that have returned.
Returned == {c \in CallIds : calls[c].pc = "returned"}

\* C27: however the calls of Descriptor() interleave, CompressGZIP runs at
\* most once and never on bytes that are compressed already; a call
\* returns only when the compression is over, and every call returns the
\* descriptor compressed once.
C27_CompressedOnce ==
    /\ pkg.compressed <= 1
    /\ pkg.rawDescData.gzip <= 1
    /\ \A c \in CallIds : calls[c].tmp.gzip <= 1
    /\ \A c \in Returned :
          /\ pkg.rawDescOnce.done
          /\ pkg.compressed = 1
          /\ calls[c].ret.bytes = CompressGZIP(file_request_proto_rawDesc)
          /\ \A d \in Returned : calls[d].ret.bytes = calls[c].ret.bytes

\* All the calls have returned, two of them on different messages, and
\* the descriptor was compressed by one of them.
C27_Witness ==
    /\ Returned = CallIds
    /\ \E c, d \in CallIds : calls[c].typ # calls[d].typ
    /\ pkg.compressed = 1
    /\ pkg.rawDescData = CompressGZIP(file_request_proto_rawDesc)
    /\ pkg.rawDescOnce.m = 0

====
